---------------------------- MODULE Spec2Model ----------------------------
(***************************************************************************)
(* Stock-Platform backend: the model store and trainer (ml/model_trainer), *)
(* the predictor (ml/predictor), the series cleaner                        *)
(* (services/data_cleaner) and the metrics calculator                      *)
(* (services/metrics_calculator).                                          *)
(*                                                                         *)
(* Money is in cents, percentages in hundredths of a percent, so that the  *)
(* code's round(x, 2) is a rounding to an integer.  A pandas DataFrame is  *)
(* the sequence of its rows.                                               *)
(***************************************************************************)
EXTENDS Integers, Sequences, FiniteSets, TLC

VARIABLES
    store,        \* model files on disk: path -> [ver, len]; ver = 0: no file
    saved,        \* path -> version of the last artifact joblib.dump completed
    fitCount,     \* number of model.fit calls so far (names the fitted model)
    fitData,      \* what the latest model.fit was given
    fitFeatures,  \* per fitted model, the frame it came from and the ordered
                  \* feature names of the columns of its X
    trainPc,      \* "idle" | "dump": where the running train_model call is
    trainCall,    \* arguments of the latest train_model call
    trainResult,  \* what the latest train_model call returned or raised
    loadObs,      \* the latest load_model call: what it returned, what was on disk
    predCall,     \* the latest predict_next_prices call: its arguments and
                  \* the model load_model gave it
    predTrace,    \* its rollout loop: per completed step, i and current_price
    predResult,   \* what it returned
    raw,          \* the frame handed to clean_stock_data
    cleaned,      \* clean_stock_data(raw)
    recleaned,    \* clean_stock_data(cleaned)
    cleanPc,      \* "input" | "cleaned" | "recleaned" | "raised"
    cleanInput,   \* what clean_stock_data was given: "frame" | "None"
    df,           \* the frame handed to calculate_all_metrics
    metrics,      \* calculate_all_metrics(df)
    lastEdit,     \* how df came to differ from the frame of the call before
    stockTable,   \* number of rows of the symbol in the stock_data table
    stockDataCache, \* stock_data_cache: cache key -> response, or nothing
    routeCall,    \* the latest request to a route, and what it found
    routeResp,    \* how it was answered, and the response
    featIn,       \* the frame handed to prepare_features
    featOut,      \* prepare_features(featIn): column name -> column
    trainXy,      \* prepare_training_data(featOut, k): the rows kept and y
    dbRows,       \* the rows of the stock_data table
    dbWritten,    \* per symbol, the frame replace_symbol_history stored last
    dbLoad,       \* the last load_stock_data_from_db call and its rows
    predictionsCache,  \* predictions_cache: key -> <<response>> or <<>>
    predRoute     \* GET /predict/{symbol}: the request, its position, its answer

mlVars == <<store, saved, fitCount, fitData, fitFeatures, trainPc, trainCall, trainResult,
            loadObs, predCall, predTrace, predResult>>
cleanVars == <<raw, cleaned, recleaned, cleanPc, cleanInput>>
metricVars == <<df, metrics, lastEdit>>
routeVars == <<stockTable, stockDataCache, routeCall, routeResp>>
featVars == <<featIn, featOut, trainXy>>
dbVars == <<dbRows, dbWritten, dbLoad>>
apiVars == <<predictionsCache, predRoute>>
vars == <<mlVars, cleanVars, metricVars, routeVars, featVars, dbVars, apiVars>>

-----------------------------------------------------------------------------
(* Bounds of the model *)

MaxTrains == 2        \* model.fit calls in one behaviour
ArtifactChunks == 2   \* writes joblib.dump makes before the file is complete
ExtraRows == 1        \* training frames reach MIN_TRAIN_ROWS + ExtraRows rows
MaxDays == 3          \* largest forecast horizon asked for

-----------------------------------------------------------------------------
(* Arithmetic helpers *)

Abs(x) == IF x < 0 THEN -x ELSE x

Max2(a, b) == IF a >= b THEN a ELSE b

Min2(a, b) == IF a <= b THEN a ELSE b

\* n / d rounded to the nearest integer, ties to even (numpy's and Python's
\* round), for d > 0.
RoundDiv(n, d) ==
    LET q == n \div d
        r == n % d
    IN  IF 2 * r < d THEN q
        ELSE IF 2 * r > d THEN q + 1
        ELSE IF q % 2 = 0 THEN q ELSE q + 1

RECURSIVE SqrtSearch(_, _, _)
SqrtSearch(n, lo, hi) ==
    IF lo >= hi THEN lo
    ELSE LET mid == (lo + hi + 1) \div 2
         IN  IF mid * mid <= n THEN SqrtSearch(n, mid, hi)
             ELSE SqrtSearch(n, lo, mid - 1)

\* floor(sqrt(n)) for 0 <= n < 2^30
ISqrt(n) == SqrtSearch(n, 0, 32767)

-----------------------------------------------------------------------------
(* ml/feature_engineer.py: the columns of the frames *)

\* Where a route's frame comes from: yf.download, or generate_mock_data when
\* the download fails or is empty.
FrameSources == {"yfinance", "mock"}

\* df.columns of the fetched frame, in the frame's order.
FetchedColumns(source) ==
    IF source = "mock"
    THEN <<"open", "close", "high", "low", "volume", "symbol", "date">>
    ELSE <<"date", "close", "high", "low", "open", "volume", "symbol">>

\* The columns calculate_all_metrics adds, in the order it adds them.
MetricColumns ==
    <<"daily_return", "ma_7", "ma_20", "high_52w", "low_52w", "volatility",
      "momentum", "trend_strength">>

\* The frame a route hands to train_model and to predict_next_prices:
\* fetched, cleaned, with its metrics.
RouteColumns(source) == FetchedColumns(source) \o MetricColumns

Has(cols, name) == \E i \in 1..Len(cols) : cols[i] = name

\* The names in `names`, in the order of `names`, that are in `cols`:
\* [col for col in names if col in cols]
RECURSIVE Present(_, _)
Present(names, cols) ==
    IF names = <<>> THEN <<>>
    ELSE (IF Has(cols, Head(names)) THEN <<Head(names)>> ELSE <<>>)
           \o Present(Tail(names), cols)

PriceFeatureColumns ==
    <<"price_range", "price_range_pct", "gap", "gap_pct", "close_position">>

VolumeFeatureColumns == <<"volume_change", "volume_ma_5", "volume_ratio">>

TimeFeatureColumns == <<"day_of_week", "day_of_month", "month", "week_of_year">>

CloseLagColumns ==
    <<"close_lag_1", "close_lag_2", "close_lag_3", "close_lag_5",
      "close_lag_7", "close_lag_14">>

ReturnLagColumns ==
    <<"daily_return_lag_1", "daily_return_lag_2", "daily_return_lag_3",
      "daily_return_lag_5">>

CloseRollingColumns ==
    <<"close_roll_mean_5", "close_roll_std_5", "close_roll_min_5",
      "close_roll_max_5", "close_roll_mean_10", "close_roll_std_10",
      "close_roll_min_10", "close_roll_max_10", "close_roll_mean_20",
      "close_roll_std_20", "close_roll_min_20", "close_roll_max_20">>

VolumeRollingColumns ==
    <<"volume_roll_mean_5", "volume_roll_std_5", "volume_roll_min_5",
      "volume_roll_max_5", "volume_roll_mean_10", "volume_roll_std_10",
      "volume_roll_min_10", "volume_roll_max_10">>

\* df.columns after prepare_features, for a frame with columns cols that has
\* the OHLCV columns: the volume, time and return-lag features are added
\* when the column they read is there.
PrepareFeaturesColumns(cols) ==
    cols \o PriceFeatureColumns
         \o (IF Has(cols, "volume") THEN VolumeFeatureColumns ELSE <<>>)
         \o (IF Has(cols, "date") THEN TimeFeatureColumns ELSE <<>>)
         \o CloseLagColumns
         \o (IF Has(cols, "daily_return") THEN ReturnLagColumns ELSE <<>>)
         \o CloseRollingColumns
         \o VolumeRollingColumns

\* get_feature_columns()
GetFeatureColumns ==
    <<"open", "high", "low", "close", "volume",
      "daily_return", "ma_7", "ma_20",
      "volatility", "momentum",
      "price_range", "price_range_pct",
      "gap", "gap_pct", "close_position",
      "volume_change", "volume_ratio",
      "day_of_week", "day_of_month", "month",
      "close_lag_1", "close_lag_2", "close_lag_3", "close_lag_5", "close_lag_7",
      "daily_return_lag_1", "daily_return_lag_2", "daily_return_lag_3",
      "close_roll_mean_5", "close_roll_mean_10", "close_roll_mean_20",
      "close_roll_std_5", "close_roll_std_10">>

\* prepare_training_data: the target column is added, then
\* feature_cols = [col for col in get_feature_columns() if col in df.columns]
TrainingFeatureCols(cols) ==
    Present(GetFeatureColumns, PrepareFeaturesColumns(cols) \o <<"target">>)

\* What train_model fits on, for the frame of each source.
TrainingFeatures ==
    [source \in FrameSources |->
        [source |-> source,
         features |-> TrainingFeatureCols(RouteColumns(source))]]

\* The feature columns picked in the frame's own order:
\* [col for col in df_features.columns if col in get_feature_columns()]
InferenceFeatureColsFrameOrder(cols) ==
    Present(PrepareFeaturesColumns(cols), GetFeatureColumns)

\* predict_next_prices, line 66:
\* feature_cols = [col for col in get_feature_columns()
\*                 if col in df_features.columns]
InferenceFeatureCols(cols) ==
    Present(GetFeatureColumns, PrepareFeaturesColumns(cols))

-----------------------------------------------------------------------------
(* ml/model_trainer.py *)

\* Symbols are character sequences, so that get_model_path can rewrite them.
Symbols == { <<"T", ".", "N">>, <<"I", ".", "N">> }

MIN_TRAIN_ROWS == 50
MIN_SAMPLES == 30
TARGET_DAYS == 1

\* get_model_path: '.' and '/' become '_'
GetModelPath(symbol) ==
    [i \in 1..Len(symbol) |->
        IF symbol[i] \in {".", "/"} THEN "_" ELSE symbol[i]]

Paths == { GetModelPath(s) : s \in Symbols }

NoFile == [ver |-> 0, len |-> 0]

\* The row counts of the frames given to train_model.
TrainRowChoices ==
    {0, MIN_SAMPLES} \cup (MIN_TRAIN_ROWS - 1 .. MIN_TRAIN_ROWS + ExtraRows)

\* prepare_features: every derived column is added to the same rows, and the
\* closing fillna drops none, so the frame keeps its length.
PrepareFeaturesLen(n) == n

\* The samples left when the rows with a null cell are dropped in the place
\* of being filled: the first 19 rows have no 20-row window.
TrainingSamplesDropNa(n) ==
    IF n = 0 THEN 0 ELSE Max2(n - 19 - TARGET_DAYS, 0)

\* prepare_training_data: the target is close shifted by -target_days; the
\* rows without a target (the last target_days ones) are dropped.
TrainingSamples(n) ==
    IF n = 0 THEN 0 ELSE Max2(n - TARGET_DAYS, 0)

\* The first check with its comparison slipped to <=: a frame of exactly 50
\* rows is refused.
InsufficientDataInclusive(n) == n = 0 \/ n <= MIN_TRAIN_ROWS

\* train_model's first check: df.empty or len(df) < 50
InsufficientData(n) == n = 0 \/ n < MIN_TRAIN_ROWS

\* train_model's second check: len(X) < 30
InsufficientSamples(samples) == samples < MIN_SAMPLES

\* split_idx = int(len(X) * (1 - test_size)), test_size = 0.2
SplitIdx(samples) == (samples * 4) \div 5

\* The rows of X and y are the rows of the frame, in the frame's (date)
\* order: sample k is the frame's k-th day.
\* X_train, y_train = X[:split_idx], y[:split_idx]
TrainSet(samples) == 1..SplitIdx(samples)

\* A split that holds out every fifth sample.
TestSetStrided(samples) == {k \in 1..samples : k % 5 = 0}

\* X_test, y_test = X[split_idx:], y[split_idx:]
TestSet(samples) == (SplitIdx(samples) + 1)..samples

\* model.fit(X_train, y_train, eval_set=[(X_test, y_test)])
FitData(samples) == [train |-> TrainSet(samples), test |-> TestSet(samples)]

InsufficientDataResult(symbol) ==
    [error |-> "Insufficient data for training", symbol |-> symbol]

InsufficientSamplesResult(symbol) ==
    [error |-> "Insufficient samples after feature preparation",
     symbol |-> symbol]

SuccessResult(symbol, samples) ==
    [symbol |-> symbol, status |-> "success", samples |-> samples,
     train_samples |-> Cardinality(TrainSet(samples)),
     test_samples |-> Cardinality(TestSet(samples))]

Pending == [pending |-> TRUE]

Raised == [raised |-> "OSError"]

\* train_model, lines 70-114: the two checks, then model.fit.  A call that
\* passes both checks goes on to joblib.dump (the Dump actions).
TrainModel(symbol, n, source) ==
    /\ trainPc = "idle"
    /\ fitCount < MaxTrains
    /\ trainCall' = [symbol |-> symbol, rows |-> n]
    /\ IF InsufficientData(n)
       THEN /\ trainResult' = InsufficientDataResult(symbol)
            /\ UNCHANGED <<fitCount, fitData, fitFeatures, trainPc>>
       ELSE IF InsufficientSamples(TrainingSamples(PrepareFeaturesLen(n)))
       THEN /\ trainResult' = InsufficientSamplesResult(symbol)
            /\ UNCHANGED <<fitCount, fitData, fitFeatures, trainPc>>
       ELSE /\ fitCount' = fitCount + 1
            /\ fitData' = FitData(TrainingSamples(PrepareFeaturesLen(n)))
            /\ fitFeatures' = Append(fitFeatures, TrainingFeatures[source])
            /\ trainPc' = "dump"
            /\ trainResult' = Pending
    /\ UNCHANGED <<store, saved, loadObs, predCall, predTrace, predResult>>

\* The file joblib.dump(model, model_path) is writing.
DumpPath == GetModelPath(trainCall.symbol)

DumpStarted == store[DumpPath].ver = fitCount

\* joblib.dump opens model_path for writing, which truncates the file, and
\* then writes the pickle piece by piece: the file after the next write.
DumpWrite(path) ==
    IF ~DumpStarted
    THEN [ver |-> fitCount, len |-> 0]
    ELSE [ver |-> fitCount, len |-> store[path].len + 1]

\* What train_model returns once joblib.dump has returned (lines 119-128).
TrainReturn(symbol, n) ==
    SuccessResult(symbol, TrainingSamples(PrepareFeaturesLen(n)))

\* One step of joblib.dump; the step that completes the file is followed by
\* train_model's return.
DumpStep ==
    /\ trainPc = "dump"
    /\ LET f == DumpWrite(DumpPath)
       IN  /\ store' = [store EXCEPT ![DumpPath] = f]
           /\ IF f.len = ArtifactChunks
              THEN /\ saved' = [saved EXCEPT ![DumpPath] = f.ver]
                   /\ trainResult' = TrainReturn(trainCall.symbol,
                                                 trainCall.rows)
                   /\ trainPc' = "idle"
              ELSE UNCHANGED <<saved, trainResult, trainPc>>
    /\ UNCHANGED <<fitCount, fitData, fitFeatures, trainCall, loadObs,
                   predCall, predTrace, predResult>>

\* A train_model that catches the failure of joblib.dump, logs it and
\* returns its result all the same.
DumpFailureSwallowed(symbol, n) ==
    SuccessResult(symbol, TrainingSamples(PrepareFeaturesLen(n)))

\* What the caller of train_model gets when joblib.dump raises: lines
\* 117-118 stand in no try block, so it gets the exception.
DumpFailure(symbol, n) == Raised

\* joblib.dump raises (disk full, permission): train_model has no handler
\* around it, so the exception leaves train_model; the file stays as it is.
DumpRaise ==
    /\ trainPc = "dump"
    /\ trainResult' = DumpFailure(trainCall.symbol, trainCall.rows)
    /\ trainPc' = "idle"
    /\ UNCHANGED <<store, saved, fitCount, fitData, fitFeatures, trainCall,
                   loadObs, predCall, predTrace, predResult>>

\* load_model: None when the file does not exist, None when joblib.load
\* raises (a file that is not a complete pickle), the model otherwise.
\* 0 stands for None, v > 0 for the model fitted by the v-th model.fit.
LoadModel(symbol) ==
    LET f == store[GetModelPath(symbol)]
    IN  IF f.ver = 0 THEN 0
        ELSE IF f.len < ArtifactChunks THEN 0
        ELSE f.ver

\* What a load_model call saw: its result, the last artifact whose save had
\* completed, and the version a running save is writing (0: none).
LoadObservation(symbol) ==
    [symbol |-> symbol,
     result |-> LoadModel(symbol),
     previous |-> saved[GetModelPath(symbol)],
     writing |-> IF trainPc = "dump" /\ trainCall.symbol = symbol
                 THEN fitCount ELSE 0]

\* A caller of load_model other than the predictor (the model-status route,
\* get_feature_importance).
LoadModelCall(symbol) ==
    /\ loadObs' = LoadObservation(symbol)
    /\ UNCHANGED <<store, saved, fitCount, fitData, fitFeatures, trainPc,
                   trainCall, trainResult, predCall, predTrace, predResult>>

-----------------------------------------------------------------------------
(* ml/predictor.py *)

\* Inputs of the predict_next_prices calls.  Prices are in tenths of a cent
\* where the code holds an unrounded float, in cents once it has rounded.
\* A scenario is what the frame and the model give one call: the last close
\* (100.000), the last date (day 0 is a Monday: 3 is a Thursday, 4 a
\* Friday), the deviation of daily_return (0 or 2.00 %) and the price
\* model.predict returns for the frame's last feature row.
Scenarios ==
    { [last_close |-> 100000, last_date |-> 3, daily_std |-> 200,
       model_output |-> 50000],
      [last_close |-> 100000, last_date |-> 4, daily_std |-> 200,
       model_output |-> 102004],
      [last_close |-> 100000, last_date |-> 4, daily_std |-> 0,
       model_output |-> 110000],
      [last_close |-> 100000, last_date |-> 0, daily_std |-> 6000,
       model_output |-> 98000],
      [last_close |-> 100000, last_date |-> 1, daily_std |-> 200,
       model_output |-> 97990],
      [last_close |-> 100000, last_date |-> 2, daily_std |-> 200,
       model_output |-> -1000] }

PredRows == 5     \* len(df) of a frame that is not empty

NoModelError(symbol) == [error |-> <<"No trained model found for ">> \o symbol]

NoDataError == [error |-> <<"No data available for prediction">>]

FeaturePreparationError == [error |-> <<"Feature preparation failed">>]

PredictionFailedError == [error |-> <<"Prediction failed">>]

\* round(x, 2) of a price held in tenths of a cent: cents
Round2(x) == RoundDiv(x, 10)

\* np.sqrt(i), in thousandths
SqrtMilli(i) == ISqrt(i * 1000000)

\* 1.96 * confidence_factor, confidence_factor = sqrt(i) * (daily_std / 100)
\* * current_price; daily_std in hundredths of a percent, prices and the
\* result in tenths of a cent.
HalfWidth(i, daily_std, current_price) ==
    ((((((current_price * daily_std) \div 100) * 196) \div 10000)
        * SqrtMilli(i))) \div 1000

\* The price the loop holds in current_price at step i: last_close at the
\* first step, the previous step's predicted_price after it.  The model is
\* given the same current_features at every step, so it returns the same
\* price at every step.
CurrentPrice(i, last_close, predicted_price) ==
    IF i = 1 THEN last_close ELSE predicted_price

\* A loop whose lists are dropped when a step raises.
CompletedStepsAllOrNothing(days, fail_at) ==
    IF fail_at = 0 THEN days ELSE 0

\* The number of steps the loop completes: model.predict raising at step
\* fail_at (0: never) breaks the loop.
CompletedSteps(days, fail_at) ==
    IF fail_at = 0 THEN days ELSE fail_at - 1

\* The three lists the loop appends to, after `steps` completed steps.
Predictions(steps, predicted_price) ==
    [i \in 1..steps |-> Round2(predicted_price)]

\* The lower bounds without max(0, lower).
ConfidenceLowerUnclamped(steps, predicted_price, last_close, daily_std) ==
    [i \in 1..steps |->
        Round2(predicted_price
            - HalfWidth(i, daily_std,
                        CurrentPrice(i, last_close, predicted_price)))]

\* confidence_lower: round(max(0, lower), 2) at each step
ConfidenceLower(steps, predicted_price, last_close, daily_std) ==
    [i \in 1..steps |->
        Round2(Max2(0, predicted_price
            - HalfWidth(i, daily_std,
                        CurrentPrice(i, last_close, predicted_price))))]

ConfidenceUpper(steps, predicted_price, last_close, daily_std) ==
    [i \in 1..steps |->
        Round2(predicted_price
            + HalfWidth(i, daily_std,
                        CurrentPrice(i, last_close, predicted_price)))]

\* current_features = df_features[feature_cols].iloc[-1:].values: the last
\* row of the engineered frame, here its position and its close.
CurrentFeatures(rows, last_close) == [row |-> rows, close |-> last_close]

\* A loop that puts the predicted price into the features of the next step.
ModelInputRederived(i, current_features, predicted_price) ==
    IF i = 1 THEN current_features
    ELSE [current_features EXCEPT !.close = predicted_price]

\* What model.predict is given at step i: current_features is assigned
\* once, before the loop.
ModelInput(i, current_features, predicted_price) == current_features

\* The loop's own values at each completed step.
RolloutTrace(steps, predicted_price, last_close, current_features) ==
    [i \in 1..steps |->
        [i |-> i,
         input |-> ModelInput(i, current_features, predicted_price),
         current_price |-> CurrentPrice(i, last_close, predicted_price),
         predicted_price |-> predicted_price]]

\* date.weekday(): Monday is 0
Weekday(d) == d % 7

\* The first day after d that is no Saturday or Sunday.
RECURSIVE SkipWeekend(_)
SkipWeekend(d) == IF Weekday(d) >= 5 THEN SkipWeekend(d + 1) ELSE d

\* The day after d, weekend or not.
NextCalendarDay(d) == d + 1

NextTradingDay(d) == SkipWeekend(d + 1)

\* prediction_dates: `count` dates, each the next trading day after the one
\* before, the first after last_date.
RECURSIVE PredictionDates(_, _)
PredictionDates(last_date, count) ==
    IF count = 0 THEN <<>>
    ELSE <<NextTradingDay(last_date)>>
            \o PredictionDates(NextTradingDay(last_date), count - 1)

\* The number of dates the date loop produces: `for _ in range(days)`.
DateCount(days, steps) == days

\* expected_return, in hundredths of a percent, from the last rounded
\* prediction (cents) and the unrounded last_close.
ExpectedReturn(last_prediction, last_close) ==
    RoundDiv((last_prediction * 10 - last_close) * 10000, last_close)

\* The label with the two thresholds counted in.
TrendInclusive(last_prediction, last_close) ==
    IF (last_prediction * 10 - last_close) * 100 >= 2 * last_close
    THEN "bullish"
    ELSE IF (last_prediction * 10 - last_close) * 100 <= -2 * last_close
    THEN "bearish"
    ELSE "neutral"

\* expected_return > 2, < -2, or neither, on the unrounded expected_return
\* of the rounded final prediction
Trend(last_prediction, last_close) ==
    IF (last_prediction * 10 - last_close) * 100 > 2 * last_close
    THEN "bullish"
    ELSE IF (last_prediction * 10 - last_close) * 100 < -2 * last_close
    THEN "bearish"
    ELSE "neutral"

SeqMin(s) == CHOOSE x \in {s[i] : i \in 1..Len(s)} :
                \A j \in 1..Len(s) : x <= s[j]

SeqMax(s) == CHOOSE x \in {s[i] : i \in 1..Len(s)} :
                \A j \in 1..Len(s) : x >= s[j]

\* The result dict of a call c whose loop completed `steps` steps (>= 1).
Forecast(c, steps) ==
    LET preds == Predictions(steps, c.model_output)
    IN  [symbol |-> c.symbol,
         current_price |-> Round2(c.last_close),
         prediction_days |-> c.days,
         predictions |-> preds,
         dates |-> PredictionDates(c.last_date, DateCount(c.days, steps)),
         confidence |->
            [lower |-> ConfidenceLower(steps, c.model_output, c.last_close,
                                       c.daily_std),
             upper |-> ConfidenceUpper(steps, c.model_output, c.last_close,
                                       c.daily_std)],
         summary |->
            [expected_price |-> preds[steps],
             expected_return |-> ExpectedReturn(preds[steps], c.last_close),
             trend |-> Trend(preds[steps], c.last_close),
             min_prediction |-> SeqMin(preds),
             max_prediction |-> SeqMax(preds)]]

\* predict_next_prices with the frame looked at before the model.
PredictResultDataFirst(c, model) ==
    IF c.rows = 0 THEN NoDataError
    ELSE IF model = 0 THEN NoModelError(c.symbol)
    ELSE IF PrepareFeaturesLen(c.rows) = 0 THEN FeaturePreparationError
    ELSE IF CompletedSteps(c.days, c.fail_at) = 0 THEN PredictionFailedError
    ELSE Forecast(c, CompletedSteps(c.days, c.fail_at))

\* predict_next_prices, from its arguments and what load_model returned.
PredictResult(c, model) ==
    IF model = 0 THEN NoModelError(c.symbol)
    ELSE IF c.rows = 0 THEN NoDataError
    ELSE IF PrepareFeaturesLen(c.rows) = 0 THEN FeaturePreparationError
    ELSE IF CompletedSteps(c.days, c.fail_at) = 0 THEN PredictionFailedError
    ELSE Forecast(c, CompletedSteps(c.days, c.fail_at))

\* The rollout loop runs only once the three early returns are passed.
PredictTrace(c, model) ==
    IF model = 0 \/ c.rows = 0 \/ PrepareFeaturesLen(c.rows) = 0 THEN <<>>
    ELSE RolloutTrace(CompletedSteps(c.days, c.fail_at), c.model_output,
                      c.last_close, CurrentFeatures(c.rows, c.last_close))

\* The columns of current_features, for a frame from `source`; the calls
\* that return before line 66 pick none.
InferenceFeatures ==
    [source \in FrameSources |-> InferenceFeatureCols(RouteColumns(source))]

PredictFeatures(c, model, source) ==
    IF model = 0 \/ c.rows = 0 \/ PrepareFeaturesLen(c.rows) = 0 THEN <<>>
    ELSE InferenceFeatures[source]

PredictNextPrices(c, source) ==
    /\ loadObs' = LoadObservation(c.symbol)
    /\ predCall' = [args |-> c, model |-> LoadModel(c.symbol),
                    source |-> source,
                    features |-> PredictFeatures(c, LoadModel(c.symbol),
                                                 source)]
    /\ predTrace' = PredictTrace(c, LoadModel(c.symbol))
    /\ predResult' = PredictResult(c, LoadModel(c.symbol))
    /\ UNCHANGED <<store, saved, fitCount, fitData, fitFeatures, trainPc,
                   trainCall, trainResult>>

PredictCall(symbol, rows, days, fail_at, sc) ==
    [symbol |-> symbol, rows |-> rows, days |-> days, fail_at |-> fail_at,
     model_output |-> sc.model_output, last_close |-> sc.last_close,
     last_date |-> sc.last_date, daily_std |-> sc.daily_std]

FirstScenario == CHOOSE sc \in Scenarios : sc.model_output = 50000

\* The calls made: every horizon, model.predict raising at no step or at any
\* one of them, every scenario; and an empty frame (which has no last row:
\* its scenario is never read).
PredictCalls ==
    { c \in { PredictCall(s, PredRows, d, f, sc) :
                s \in Symbols, d \in 1..MaxDays, f \in 0..MaxDays,
                sc \in Scenarios } : c.fail_at <= c.days }
    \cup { PredictCall(s, 0, MaxDays, 0, FirstScenario) : s \in Symbols }

\* The calls made while the trainer's interleavings are explored.
ProbeCalls ==
    { PredictCall(s, r, 1, 0, FirstScenario) :
        s \in Symbols, r \in {0, PredRows} }

-----------------------------------------------------------------------------
(* The model store, the trainer and the predictor together *)

NoCall == [symbol |-> <<"T", ".", "N">>, rows |-> 0]

NoLoad == [symbol |-> <<"T", ".", "N">>, result |-> 0, previous |-> 0,
           writing |-> 0]

MlInit ==
    /\ store = [p \in Paths |-> NoFile]
    /\ saved = [p \in Paths |-> 0]
    /\ fitCount = 0
    /\ fitData = [train |-> {}, test |-> {}]
    /\ fitFeatures = <<>>
    /\ trainPc = "idle"
    /\ trainCall = NoCall
    /\ trainResult = Pending
    /\ loadObs = NoLoad
    /\ predCall = Pending
    /\ predTrace = <<>>
    /\ predResult = Pending

CleanIdle ==
    /\ raw = <<>>
    /\ cleaned = <<>>
    /\ recleaned = <<>>
    /\ cleanPc = "input"
    /\ cleanInput = "frame"

\* No request was served yet: the table and the cache are empty.
RoutesIdle ==
    /\ stockTable = 0
    /\ stockDataCache = [k \in {"stock_data:7", "stock_data:30", "summary"}
                            |-> <<>>]
    /\ routeCall = Pending
    /\ routeResp = Pending

\* The stock_data table is empty and was not read.
DbIdle ==
    /\ dbRows = {}
    /\ dbWritten = [symbol \in Symbols |-> <<>>]
    /\ dbLoad = Pending

\* The horizons asked of GET /predict/{symbol}.
PredictionDays == {1, 2}

\* cache_key = f"prediction:{symbol}:{days}"
PredictionKey(symbol, days) == <<"prediction", symbol, days>>

PredictionKeys == { PredictionKey(s, d) : s \in Symbols, d \in PredictionDays }

\* No prediction was asked for yet: predictions_cache is empty.
ApiIdle ==
    /\ predictionsCache = [k \in PredictionKeys |-> <<>>]
    /\ predRoute = [pc |-> "idle"]

\* prepare_features was not called yet.
FeaturesIdle ==
    /\ featIn = <<>>
    /\ featOut = <<>>
    /\ trainXy = Pending

MetricsIdle ==
    /\ df = <<>>
    /\ metrics = <<>>
    /\ lastEdit = [op |-> "none", pos |-> 0]

Init == MlInit /\ CleanIdle /\ MetricsIdle /\ RoutesIdle /\ FeaturesIdle
            /\ DbIdle /\ ApiIdle

Others == UNCHANGED <<cleanVars, metricVars, routeVars, featVars, dbVars, apiVars>>

\* The trainer, the loader and the predictor, in every interleaving.
\* The store under interleaved trainers and loaders; the frames of this
\* specification are all downloaded ones.
Next ==
    \/ \E s \in Symbols, n \in TrainRowChoices :
          TrainModel(s, n, "yfinance") /\ Others
    \/ DumpStep /\ Others
    \/ DumpRaise /\ Others
    \/ \E s \in Symbols : LoadModelCall(s) /\ Others
    \/ \E c \in ProbeCalls : PredictNextPrices(c, "yfinance") /\ Others

Spec == Init /\ [][Next]_vars

\* The symbol whose model is trained while the predictor is explored; the
\* other symbols stay without a model.
TrainedSymbol == <<"T", ".", "N">>

\* The predictor over every call, beside a trainer given frames of
\* MIN_TRAIN_ROWS rows; the frames are all downloaded ones.
NextPredict ==
    \/ TrainModel(TrainedSymbol, MIN_TRAIN_ROWS, "yfinance") /\ Others
    \/ DumpStep /\ Others
    \/ DumpRaise /\ Others
    \/ \E c \in PredictCalls : PredictNextPrices(c, "yfinance") /\ Others

SpecPredict == Init /\ [][NextPredict]_vars

\* The trainer and the predictor over frames of either source: a model
\* fitted on a frame of one column order is given a frame of the other.
NextFeatures ==
    \/ \E n \in TrainRowChoices, source \in FrameSources :
          TrainModel(TrainedSymbol, n, source) /\ Others
    \/ DumpStep /\ Others
    \/ DumpRaise /\ Others
    \/ \E c \in ProbeCalls, source \in FrameSources :
          PredictNextPrices(c, source) /\ Others

SpecFeatures == Init /\ [][NextFeatures]_vars

-----------------------------------------------------------------------------
(* services/data_cleaner.py *)

MaxRows == 3      \* rows of a raw frame
MaxDate == 2      \* trading dates a raw frame draws from

\* A cell that may be null is a sequence: <<>> is NaN/None, <<v>> holds v.
Null == <<>>

IsNull(cell) == cell = Null

Val(cell) == cell[1]

EssentialCols == <<"open", "high", "low", "close", "volume">>

PriceCols == <<"open", "high", "low", "close">>

Row(date, symbol, open, high, low, close, volume) ==
    [date |-> date, symbol |-> symbol, open |-> open, high |-> high,
     low |-> low, close |-> close, volume |-> volume]

\* The rows a provider may deliver for one date of one symbol: two sound
\* rows that differ in their close, a row without a close, a row with no
\* volume, a row whose high lies under its low, and a row whose high lies
\* under its open and whose low lies over its close (high >= low all the
\* same).
RawRows(date, symbol) ==
    { Row(date, symbol, <<10000>>, <<10200>>, <<9900>>, <<10100>>, <<1000>>),
      Row(date, symbol, <<10000>>, <<10200>>, <<9900>>, <<10150>>, <<1200>>),
      Row(date, symbol, <<10000>>, <<10200>>, <<9900>>, Null, <<1000>>),
      Row(date, symbol, <<10000>>, <<10200>>, <<9900>>, <<10050>>, <<0>>),
      Row(date, symbol, <<10000>>, <<9800>>, <<9900>>, <<9850>>, <<1000>>),
      Row(date, symbol, <<10000>>, <<9950>>, <<9940>>, <<9900>>, <<1000>>) }

\* The rows of `frame` at the positions in `keep`, in the frame's order.
RECURSIVE TakeRows(_, _, _)
TakeRows(frame, keep, i) ==
    IF i > Len(frame) THEN <<>>
    ELSE (IF i \in keep THEN <<frame[i]>> ELSE <<>>)
            \o TakeRows(frame, keep, i + 1)

\* df.dropna(subset=[col])
DropNa(frame, col) ==
    TakeRows(frame, {i \in 1..Len(frame) : ~IsNull(frame[i][col])}, 1)

\* df.columns of a frame that has rows
Columns(frame) == DOMAIN frame[1]

\* Step 1: the loop over essential_cols, from column k on; a column the
\* frame lacks is passed over.
RECURSIVE DropNaFrom(_, _, _)
DropNaFrom(frame, cols, k) ==
    IF k > Len(EssentialCols) THEN frame
    ELSE IF EssentialCols[k] \in cols
    THEN DropNaFrom(DropNa(frame, EssentialCols[k]), cols, k + 1)
    ELSE DropNaFrom(frame, cols, k + 1)

DropNaEssential(frame, cols) == DropNaFrom(frame, cols, 1)

DuplicateKey(row) == <<row.date, row.symbol>>

\* drop_duplicates(subset=['date', 'symbol'], keep='first')
DropDuplicatesKeepFirst(frame) ==
    TakeRows(frame,
             {i \in 1..Len(frame) :
                \A j \in 1..(i - 1) :
                    DuplicateKey(frame[j]) # DuplicateKey(frame[i])}, 1)

\* Step 2: drop_duplicates(subset=['date', 'symbol'], keep='last')
DropDuplicates(frame) ==
    TakeRows(frame,
             {i \in 1..Len(frame) :
                \A j \in (i + 1)..Len(frame) :
                    DuplicateKey(frame[j]) # DuplicateKey(frame[i])}, 1)

\* The orders of `frame` in which the sort key (keys[i] is the key of row
\* i) never decreases.  sort_values sorts with quicksort, which is not
\* stable: rows with equal keys may come out in any order.
SortedOrders(frame, keys) ==
    { [i \in 1..Len(frame) |-> frame[p[i]]] :
        p \in { q \in Permutations(1..Len(frame)) :
                  \A i, j \in 1..Len(frame) :
                     i < j => keys[q[i]] <= keys[q[j]] } }

SymbolRank(symbol) == IF symbol = <<"T", ".", "N">> THEN 1 ELSE 2

\* sort_values('symbol'): the rows of a one-symbol frame all tie.
SortValuesBySymbol(frame) ==
    SortedOrders(frame, [i \in 1..Len(frame) |-> SymbolRank(frame[i].symbol)])

\* Step 3: sort_values('date').reset_index(drop=True)
SortValues(frame) ==
    SortedOrders(frame, [i \in 1..Len(frame) |-> frame[i].date])

\* df[df['volume'] >= 0]: a day without trades passes.
NonNegativeVolume(frame) ==
    TakeRows(frame, {i \in 1..Len(frame) : Val(frame[i].volume) >= 0}, 1)

\* Step 4: df[df['volume'] > 0]
PositiveVolume(frame) ==
    TakeRows(frame, {i \in 1..Len(frame) : Val(frame[i].volume) > 0}, 1)

\* A filter on the whole price range: high >= max(open, close) and
\* low <= min(open, close), beside high >= low.
HighLowEncloseOpenClose(frame) ==
    TakeRows(frame,
             {i \in 1..Len(frame) :
                /\ Val(frame[i].high) >= Val(frame[i].low)
                /\ Val(frame[i].high)
                      >= Max2(Val(frame[i].open), Val(frame[i].close))
                /\ Val(frame[i].low)
                      <= Min2(Val(frame[i].open), Val(frame[i].close))}, 1)

\* Step 5: df[df['high'] >= df['low']]
HighNotBelowLow(frame) ==
    TakeRows(frame,
             {i \in 1..Len(frame) :
                Val(frame[i].high) >= Val(frame[i].low)}, 1)

\* Series.ffill(): a null cell takes the value of the nearest non-null cell
\* above it, and stays null when there is none.
RECURSIVE FFillCell(_, _, _)
FFillCell(frame, col, i) ==
    IF i = 0 THEN Null
    ELSE IF ~IsNull(frame[i][col]) THEN frame[i][col]
    ELSE FFillCell(frame, col, i - 1)

FFill(frame, col) ==
    [i \in 1..Len(frame) |->
        [frame[i] EXCEPT ![col] = FFillCell(frame, col, i)]]

\* Step 6: the loop over price_cols, from column k on; a column the frame
\* lacks is passed over.
RECURSIVE FFillFrom(_, _, _)
FFillFrom(frame, cols, k) ==
    IF k > Len(PriceCols) THEN frame
    ELSE IF PriceCols[k] \in cols
    THEN FFillFrom(FFill(frame, PriceCols[k]), cols, k + 1)
    ELSE FFillFrom(frame, cols, k + 1)

FFillPrices(frame, cols) == FFillFrom(frame, cols, 1)

\* Step 2 under its guard: if 'date' in df.columns
Deduplicated(frame, cols) ==
    IF "date" \in cols THEN DropDuplicates(frame) ELSE frame

\* Step 2 raises KeyError when the frame has a date column and no symbol
\* column: the guard looks at 'date' alone, the subset names both.
\* (drop_duplicates returns an empty frame before it looks at the subset.)
RaisesKeyError(frame, cols) ==
    /\ "date" \in cols
    /\ "symbol" \notin cols
    /\ DropNaEssential(frame, cols) # <<>>

\* Step 3 under its guard: if 'date' in df.columns
SortedByDate(frame, cols) ==
    IF "date" \in cols THEN SortValues(frame) ELSE { frame }

\* Step 4 under its guard: if 'volume' in df.columns
VolumeFiltered(frame, cols) ==
    IF "volume" \in cols THEN PositiveVolume(frame) ELSE frame

\* Step 5 under its guard: if both 'high' and 'low' are in df.columns
HighLowFiltered(frame, cols) ==
    IF {"high", "low"} \subseteq cols THEN HighNotBelowLow(frame) ELSE frame

\* The frames steps 1 to 6 may return for a frame with columns cols.
CleanSteps(frame, cols) ==
    { FFillPrices(HighLowFiltered(VolumeFiltered(sorted, cols), cols), cols) :
        sorted \in SortedByDate(
                      Deduplicated(DropNaEssential(frame, cols), cols), cols) }

\* clean_stock_data: the frames it may return for `frame`; an empty frame
\* gives pd.DataFrame().
CleanStockDataOutcomes(frame) ==
    IF frame = <<>> THEN { <<>> } ELSE CleanSteps(frame, Columns(frame))

\* One more row of the frame a provider delivers for one symbol.
AddRow(row) ==
    /\ cleanPc = "input"
    /\ Len(raw) < MaxRows
    /\ raw # <<>> => row.symbol = raw[1].symbol
    /\ raw' = Append(raw, row)
    /\ UNCHANGED <<cleaned, recleaned, cleanPc, cleanInput>>

\* df = clean_stock_data(df): the cleaned frame, or the KeyError of step 2
CleanStockData ==
    /\ cleanPc = "input"
    /\ cleanInput' = "frame"
    /\ IF raw # <<>> /\ RaisesKeyError(raw, Columns(raw))
       THEN /\ cleanPc' = "raised"
            /\ UNCHANGED cleaned
       ELSE /\ cleaned' \in CleanStockDataOutcomes(raw)
            /\ cleanPc' = "cleaned"
    /\ UNCHANGED <<raw, recleaned>>

\* clean_stock_data run on its own output.
CleanAgain ==
    /\ cleanPc = "cleaned"
    /\ recleaned' \in CleanStockDataOutcomes(cleaned)
    /\ cleanPc' = "recleaned"
    /\ UNCHANGED <<raw, cleaned, cleanInput>>

NextClean ==
    \/ \E s \in Symbols, d \in 1..MaxDate : \E row \in RawRows(d, s) :
          AddRow(row) /\ UNCHANGED <<mlVars, metricVars, routeVars, featVars, dbVars, apiVars>>
    \/ CleanStockData /\ UNCHANGED <<mlVars, metricVars, routeVars, featVars, dbVars, apiVars>>
    \/ CleanAgain /\ UNCHANGED <<mlVars, metricVars, routeVars, featVars, dbVars, apiVars>>

SpecClean == Init /\ [][NextClean]_vars

\* clean_stock_data(None): pd.DataFrame()
CleanNone ==
    /\ cleanPc = "input"
    /\ raw = <<>>
    /\ cleanInput' = "None"
    /\ cleaned' = <<>>
    /\ cleanPc' = "cleaned"
    /\ UNCHANGED <<raw, recleaned>>

AllColumns == {"date", "symbol", "open", "high", "low", "close", "volume"}

\* The row without the cells of the columns in `lacking`.
WithoutColumns(row, lacking) == [c \in DOMAIN row \ lacking |-> row[c]]

\* The rows of a table that lacks one of the expected columns, or none.
MalformedRows(date) ==
    { WithoutColumns(row, lacking) :
        row \in RawRows(date, TrainedSymbol),
        lacking \in { {} } \cup { {c} : c \in AllColumns } }

\* One more row of a table; its rows have the same columns.
AddMalformedRow(row) ==
    /\ cleanPc = "input"
    /\ Len(raw) < MaxRows
    /\ raw # <<>> => DOMAIN row = Columns(raw)
    /\ raw' = Append(raw, row)
    /\ UNCHANGED <<cleaned, recleaned, cleanPc, cleanInput>>

\* The cleaner given malformed and empty price series.
NextCleanMalformed ==
    \/ \E d \in 1..MaxDate : \E row \in MalformedRows(d) :
          AddMalformedRow(row) /\ UNCHANGED <<mlVars, metricVars, routeVars, featVars, dbVars, apiVars>>
    \/ CleanStockData /\ UNCHANGED <<mlVars, metricVars, routeVars, featVars, dbVars, apiVars>>
    \/ CleanNone /\ UNCHANGED <<mlVars, metricVars, routeVars, featVars, dbVars, apiVars>>

SpecCleanMalformed == Init /\ [][NextCleanMalformed]_vars

-----------------------------------------------------------------------------
(* services/metrics_calculator.py *)

BaseLen == 251    \* rows of the price history before the rows that vary
TailMax == 2      \* rows that vary after it

MA_SHORT_WINDOW == 7
MA_LONG_WINDOW == 20
TRADING_DAYS_PER_YEAR == 252
VOLATILITY_WINDOW == 30
VOLATILITY_MIN_PERIODS == 5
MAX_VOLATILITY == 5
MOMENTUM_WINDOW == 20

\* A cleaned row: prices in tenths of a cent, all above 0.
PriceRow(open, high, low, close) ==
    [open |-> open, high |-> high, low |-> low, close |-> close]

FlatDay == PriceRow(100000, 101000, 99000, 100000)

QuietDay == PriceRow(100000, 101500, 99900, 101004)

UpDay == PriceRow(100000, 107005, 99500, 106000)

DownDay == PriceRow(100000, 100500, 93000, 94000)

\* The price history: ten days that swing by 6 %, quiet days after them.
BaseRow(pos) ==
    IF pos <= 10 THEN (IF pos % 2 = 0 THEN UpDay ELSE DownDay)
    ELSE IF pos % 3 = 0 THEN QuietDay ELSE FlatDay

\* The rows that may stand at position pos of the frame.
RowChoices(pos) == IF pos <= BaseLen THEN { BaseRow(pos) } ELSE { UpDay, DownDay }

\* The day's range in the place of its return.
DailyReturnOverRange(row) == RoundDiv((row.high - row.low) * 10000, row.open)

\* daily_return = ((close - open) / open * 100).round(2), in hundredths of
\* a percent
DailyReturn(row) == RoundDiv((row.close - row.open) * 10000, row.open)

\* rolling(window).  A centered window: the rows up to (window - 1) / 2
\* after row i belong to it.
WindowLastCentered(i, window, n) == Min2(n, i + (window - 1) \div 2)

\* rolling(window, min_periods): the window of row i of n ends at row i ...
WindowLast(i, window, n) == i

\* ... and holds the `window` rows up to it, fewer at the start of the frame.
WindowFirst(i, window) == Max2(1, i - window + 1)

RECURSIVE SumClose(_, _, _)
SumClose(frame, lo, hi) ==
    IF lo > hi THEN 0
    ELSE IF lo = hi THEN frame[hi].close
    ELSE SumClose(frame, lo, (lo + hi) \div 2)
            + SumClose(frame, (lo + hi) \div 2 + 1, hi)

\* close.rolling(window, min_periods=1).mean().round(2), in cents
RollingMeanClose(frame, i, window) ==
    LET lo == WindowFirst(i, window)
        hi == WindowLast(i, window, Len(frame))
    IN  RoundDiv(SumClose(frame, lo, hi), 10 * (hi - lo + 1))

DailyMax(row) == Max2(row.open, Max2(row.high, row.close))

DailyMin(row) == Min2(row.open, Min2(row.low, row.close))

RECURSIVE MaxOver(_, _, _)
MaxOver(frame, lo, hi) ==
    IF lo = hi THEN DailyMax(frame[hi])
    ELSE Max2(MaxOver(frame, lo, (lo + hi) \div 2),
              MaxOver(frame, (lo + hi) \div 2 + 1, hi))

RECURSIVE MinOver(_, _, _)
MinOver(frame, lo, hi) ==
    IF lo = hi THEN DailyMin(frame[hi])
    ELSE Min2(MinOver(frame, lo, (lo + hi) \div 2),
              MinOver(frame, (lo + hi) \div 2 + 1, hi))

\* daily_max.rolling(252, min_periods=1).max().round(2), in cents
High52w(frame, i) ==
    Round2(MaxOver(frame, WindowFirst(i, TRADING_DAYS_PER_YEAR),
                   WindowLast(i, TRADING_DAYS_PER_YEAR, Len(frame))))

\* daily_min.rolling(252, min_periods=1).min().round(2), in cents
Low52w(frame, i) ==
    Round2(MinOver(frame, WindowFirst(i, TRADING_DAYS_PER_YEAR),
                   WindowLast(i, TRADING_DAYS_PER_YEAR, Len(frame))))

RECURSIVE SumReturn(_, _, _)
SumReturn(frame, lo, hi) ==
    IF lo > hi THEN 0
    ELSE IF lo = hi THEN DailyReturn(frame[hi])
    ELSE SumReturn(frame, lo, (lo + hi) \div 2)
            + SumReturn(frame, (lo + hi) \div 2 + 1, hi)

RECURSIVE SumSquaredReturn(_, _, _)
SumSquaredReturn(frame, lo, hi) ==
    IF lo > hi THEN 0
    ELSE IF lo = hi THEN DailyReturn(frame[hi]) * DailyReturn(frame[hi])
    ELSE SumSquaredReturn(frame, lo, (lo + hi) \div 2)
            + SumSquaredReturn(frame, (lo + hi) \div 2 + 1, hi)

\* daily_return.rolling(30, min_periods=5).std(): the sample deviation of
\* the c returns in the window, NaN for fewer than 5.  The deviation is
\* sqrt(num / den), in hundredths of a percent.
RollingStd(frame, i) ==
    LET lo == WindowFirst(i, VOLATILITY_WINDOW)
        hi == WindowLast(i, VOLATILITY_WINDOW, Len(frame))
        c == hi - lo + 1
        s == SumReturn(frame, lo, hi)
    IN  IF c < VOLATILITY_MIN_PERIODS THEN Null
        ELSE << [num |-> c * SumSquaredReturn(frame, lo, hi) - s * s,
                 den |-> c * (c - 1)] >>

\* rolling_std / max_volatility * 100: the score is
\* scale * sqrt(num / den) hundredths of a point.
Normalize(std) == [num |-> std.num, den |-> std.den, scale |-> 100 \div MAX_VOLATILITY]

\* No clip at all.
ClipNone(score) == score

\* .clip(0, 100): a score of 100.00 or more becomes 100.00; none is under 0.
Clip(score) ==
    IF (score.num \div score.den) * score.scale * score.scale >= 10000 * 10000
    THEN [num |-> 10000 * 10000, den |-> 1, scale |-> 1]
    ELSE score

\* .round(2) of a score: the nearest hundredth.
RoundScore(score) ==
    LET f == 4 * score.scale * score.scale
        x4 == f * (score.num \div score.den)
                + (f * (score.num % score.den)) \div score.den
        k == ISqrt(x4 \div 4)
    IN  IF x4 < 4 * k * k + 4 * k + 1 THEN k ELSE k + 1

\* calculate_volatility: NaN where the deviation is NaN
Volatility(frame, i) ==
    LET std == RollingStd(frame, i)
    IN  IF IsNull(std) THEN Null
        ELSE << RoundScore(Clip(Normalize(Val(std)))) >>

\* close.pct_change(periods=20).mul(100).round(2)
Momentum(frame, i) ==
    IF i <= MOMENTUM_WINDOW THEN Null
    ELSE << RoundDiv((frame[i].close - frame[i - MOMENTUM_WINDOW].close) * 10000,
                     frame[i - MOMENTUM_WINDOW].close) >>

\* ((close - ma_20) / ma_20 * 100).round(2), ma_20 being the rounded column
TrendStrength(frame, i) ==
    LET ma_20 == RollingMeanClose(frame, i, MA_LONG_WINDOW)
    IN  << RoundDiv((frame[i].close - 10 * ma_20) * 1000, ma_20) >>

\* Series.fillna(value)
FillNa(cell, value) == IF IsNull(cell) THEN value ELSE Val(cell)

MetricsOfRow(frame, i) ==
    [daily_return |-> DailyReturn(frame[i]),
     ma_7 |-> RollingMeanClose(frame, i, MA_SHORT_WINDOW),
     ma_20 |-> RollingMeanClose(frame, i, MA_LONG_WINDOW),
     high_52w |-> High52w(frame, i),
     low_52w |-> Low52w(frame, i),
     volatility |-> FillNa(Volatility(frame, i), 0),
     momentum |-> FillNa(Momentum(frame, i), 0),
     trend_strength |-> FillNa(TrendStrength(frame, i), 0)]

\* calculate_all_metrics: the derived columns, row by row; an empty frame
\* is returned as it is.
CalculateAllMetrics(frame) ==
    IF frame = <<>> THEN <<>>
    ELSE [i \in 1..Len(frame) |-> MetricsOfRow(frame, i)]

\* The frame without its row at position pos.
WithoutRow(frame, pos) ==
    SubSeq(frame, 1, pos - 1) \o SubSeq(frame, pos + 1, Len(frame))

\* The positions whose row may be altered or removed.
TailPositions == (BaseLen + 1)..Len(df)

\* calculate_all_metrics on the frame with one more day.
AppendRow(row) ==
    /\ Len(df) < BaseLen + TailMax
    /\ df' = Append(df, row)
    /\ metrics' = CalculateAllMetrics(df')
    /\ lastEdit' = [op |-> "append", pos |-> Len(df) + 1]

\* calculate_all_metrics on the frame with one day's row altered.
AlterRow(pos, row) ==
    /\ row # df[pos]
    /\ df' = [df EXCEPT ![pos] = row]
    /\ metrics' = CalculateAllMetrics(df')
    /\ lastEdit' = [op |-> "alter", pos |-> pos]

\* calculate_all_metrics on the frame with one day's row removed.
RemoveRow(pos) ==
    /\ df' = WithoutRow(df, pos)
    /\ metrics' = CalculateAllMetrics(df')
    /\ lastEdit' = [op |-> "remove", pos |-> pos]

NextMetrics ==
    \/ \E row \in RowChoices(Len(df) + 1) :
          AppendRow(row) /\ UNCHANGED <<mlVars, cleanVars, routeVars, featVars, dbVars, apiVars>>
    \/ \E pos \in TailPositions : \E row \in RowChoices(pos) :
          AlterRow(pos, row) /\ UNCHANGED <<mlVars, cleanVars, routeVars, featVars, dbVars, apiVars>>
    \/ \E pos \in TailPositions :
          RemoveRow(pos) /\ UNCHANGED <<mlVars, cleanVars, routeVars, featVars, dbVars, apiVars>>

SpecMetrics == Init /\ [][NextMetrics]_vars

\* calculate_all_metrics on a series that grows by the same day: open and
\* close 100, high 101, low 99.
NextConstant ==
    AppendRow(FlatDay) /\ UNCHANGED <<mlVars, cleanVars, routeVars, featVars, dbVars, apiVars>>

SpecConstant == Init /\ [][NextConstant]_vars

-----------------------------------------------------------------------------
(* routers/stock_data.py, routers/summary.py, services/db_store.py *)

MIN_DAYS == 7                 \* Query(DEFAULT_DAYS, ge=7, le=365)
DEFAULT_DAYS == 30
SUMMARY_MIN_ROWS == 200       \* has_enough_data(db, symbol, minimum_rows=200)
SUMMARY_LOAD_ROWS == 252      \* load_stock_data_from_db(db, symbol, 252)
SUMMARY_SERVE_ROWS == 50      \* if len(db_rows) >= 50

DaysChoices == {MIN_DAYS, DEFAULT_DAYS}

\* len(df) after clean_stock_data and calculate_all_metrics.
FrameRowChoices == {0, MIN_DAYS, SUMMARY_MIN_ROWS}

\* What a call on the database session does.
StoreOutcomes == {"ok", "raises"}

\* What fetch_stock_data returns: it falls back to generate_mock_data, so
\* the routes are given a frame with rows.
FetchOutcomes == {"frame"}

\* A request and what its environment does: `read` is the outcome of the
\* statements of the try block around the store read, `write` that of
\* replace_symbol_history, `rows` the length of the frame after cleaning.
RouteCalls ==
    [route : {"data"}, known : {TRUE}, days : DaysChoices,
     read : StoreOutcomes, fetched : FetchOutcomes, rows : FrameRowChoices,
     write : StoreOutcomes]
    \cup [route : {"summary"}, known : {TRUE}, days : {0},
          read : StoreOutcomes, fetched : FetchOutcomes,
          rows : FrameRowChoices, write : StoreOutcomes]
    \cup [route : {"data", "summary"}, known : {FALSE}, days : {0},
          read : {"ok"}, fetched : FetchOutcomes, rows : {0}, write : {"ok"}]

\* cache_key: f"stock_data:{symbol}:{days}" and f"summary:{symbol}", for the
\* one symbol of this model.
CacheKey(c) ==
    IF c.route = "summary" THEN "summary"
    ELSE IF c.days = MIN_DAYS THEN "stock_data:7"
    ELSE "stock_data:30"

CacheKeys == {"stock_data:7", "stock_data:30", "summary"}

\* load_stock_data_from_db: the last `days` rows of the symbol; here their
\* number.
LoadStockDataFromDb(stored, days) == Min2(stored, days)

HasEnoughData(stored, minimum_rows) == stored >= minimum_rows

\* The rows a route reads from the store.
StoreRows(c, stored) ==
    IF c.route = "data" THEN LoadStockDataFromDb(stored, c.days)
    ELSE LoadStockDataFromDb(stored, SUMMARY_LOAD_ROWS)

\* _STOCKDATA_COLUMNS
StockDataColumns ==
    {"symbol", "date", "open", "high", "low", "close", "volume",
     "daily_return", "ma_7", "ma_20", "high_52w", "low_52w", "volatility",
     "momentum", "trend_strength"}

\* The attributes class StockData maps, beside id, created_at and
\* updated_at which the database fills.
StockDataMapped ==
    {"symbol", "date", "open", "high", "low", "close", "volume",
     "daily_return", "ma_7", "ma_20", "high_52w", "low_52w", "volatility",
     "momentum"}

\* The attributes the summary route reads of each loaded row (lines 70-86).
SummaryRowAttributes ==
    {"date", "open", "high", "low", "close", "volume", "daily_return",
     "ma_7", "ma_20", "high_52w", "low_52w", "volatility", "momentum",
     "trend_strength", "symbol"}

\* The store read raises: the session fails (c.read), or the summary route,
\* having loaded its rows, reads an attribute the row objects do not have
\* (AttributeError); both land in the route's except.
ReadRaises(c, stored) ==
    \/ c.read # "ok"
    \/ /\ c.route = "summary"
       /\ HasEnoughData(stored, SUMMARY_MIN_ROWS)
       /\ StoreRows(c, stored) >= SUMMARY_SERVE_ROWS
       /\ ~(SummaryRowAttributes \subseteq StockDataMapped)

\* A store that serves any row it holds.
StoreServesAnyRows(c, stored) ==
    StoreRows(c, stored) >= 1

\* The conditions under which the read path returns: len(db_rows) >= days
\* in the data route; has_enough_data and len(db_rows) >= 50 in the summary
\* route.
StoreServes(c, stored) ==
    IF c.route = "data" THEN StoreRows(c, stored) >= c.days
    ELSE /\ HasEnoughData(stored, SUMMARY_MIN_ROWS)
         /\ StoreRows(c, stored) >= SUMMARY_SERVE_ROWS

\* Which return statement of the handler answers the request.
Via(c, stored, cached) ==
    IF ~c.known THEN "not_found"
    ELSE IF cached # <<>> THEN "cache"
    ELSE IF ~ReadRaises(c, stored) /\ StoreServes(c, stored) THEN "store"
    ELSE IF c.fetched # "frame" THEN "unavailable"
    ELSE "recomputed"

\* The response: its status and the number of rows it was built from.
Body(c, stored, via) ==
    IF via = "not_found" THEN [status |-> 404, rows |-> 0]
    ELSE IF via = "unavailable" THEN [status |-> 503, rows |-> 0]
    ELSE IF via = "store" THEN [status |-> 200, rows |-> StoreRows(c, stored)]
    ELSE IF c.route = "data"
    THEN [status |-> 200, rows |-> Min2(c.rows, c.days)]     \* df.tail(days)
    ELSE [status |-> 200, rows |-> c.rows]

\* replace_symbol_history inside the route's try: an empty frame is not
\* written, a raise leaves the table as it was (nothing was committed).
ReplaceSymbolHistory(stored, c) ==
    IF c.rows = 0 \/ c.write = "raises" THEN stored ELSE c.rows

\* A handler, from the cache lookup to its return or HTTPException.  The
\* handlers have no await: each runs to its end before another starts.
ServeRoute(c) ==
    LET cached == stockDataCache[CacheKey(c)]
        via == Via(c, stockTable, cached)
        body == IF via = "cache" THEN cached[1] ELSE Body(c, stockTable, via)
    IN  /\ routeCall' = [args |-> c, stored |-> stockTable,
                         hit |-> (cached # <<>>)]
        /\ routeResp' = [via |-> via, body |-> body]
        /\ stockDataCache' =
              IF via \in {"store", "recomputed"}
              THEN [stockDataCache EXCEPT ![CacheKey(c)] = <<body>>]
              ELSE stockDataCache
        /\ stockTable' =
              IF via = "recomputed" THEN ReplaceSymbolHistory(stockTable, c)
              ELSE stockTable

GetStockData(c) == c.route = "data" /\ ServeRoute(c)

GetStockSummary(c) == c.route = "summary" /\ ServeRoute(c)

\* An entry of the TTLCache reaches its time to live.
CacheExpire(key) ==
    /\ stockDataCache[key] # <<>>
    /\ stockDataCache' = [stockDataCache EXCEPT ![key] = <<>>]
    /\ UNCHANGED <<stockTable, routeCall, routeResp>>

NextRoutes ==
    \/ \E c \in RouteCalls :
          GetStockData(c) /\ UNCHANGED <<mlVars, cleanVars, metricVars, featVars, dbVars, apiVars>>
    \/ \E c \in RouteCalls :
          GetStockSummary(c) /\ UNCHANGED <<mlVars, cleanVars, metricVars, featVars, dbVars, apiVars>>
    \/ \E key \in CacheKeys :
          CacheExpire(key) /\ UNCHANGED <<mlVars, cleanVars, metricVars, featVars, dbVars, apiVars>>

SpecRoutes == Init /\ [][NextRoutes]_vars

-----------------------------------------------------------------------------
(* services/db_store.py and database/models.py: the rows of the store *)

MaxStoreDate == 3     \* trading dates the stored frames draw from

\* A row of calculate_all_metrics; `day` picks one of two days' figures.
\* Prices in rupees, the derived fields in hundredths.
MetricsRow(symbol, date, day) ==
    [symbol |-> symbol, date |-> date, open |-> 100 + day,
     high |-> 103 + day, low |-> 99, close |-> 102 + day,
     volume |-> 1000 * day, daily_return |-> 100 * day, ma_7 |-> 10100 + day,
     ma_20 |-> 10050 + day, high_52w |-> 104, low_52w |-> 99,
     volatility |-> 40 * day, momentum |-> -30 * day,
     trend_strength |-> 150 * day]

\* The frames given to replace_symbol_history: the empty one, and rows of
\* ascending, distinct dates (calculate_all_metrics sorts by date and the
\* cleaner leaves one row per date).
RECURSIVE MetricsFrames(_, _)
MetricsFrames(symbol, from) ==
    IF from > MaxStoreDate THEN {<<>>}
    ELSE MetricsFrames(symbol, from + 1)
            \cup { <<MetricsRow(symbol, from, day)>> \o rest :
                      day \in {1, 2},
                      rest \in MetricsFrames(symbol, from + 1) }

\* bulk_insert_mappings(StockData, mappings): of each mapping, the keys that
\* are attributes of the class go into the INSERT; the others are ignored.
Mapping(row) == [col \in DOMAIN row \cap StockDataMapped |-> row[col]]

\* replace_symbol_history: nothing for an empty frame; else the symbol's
\* rows are deleted and the frame's rows inserted.
ReplaceSymbolHistoryRows(table, symbol, frame) ==
    IF frame = <<>> THEN table
    ELSE {r \in table : r.symbol # symbol}
            \cup { Mapping([frame[i] EXCEPT !.symbol = symbol]) :
                      i \in 1..Len(frame) }

\* The rows of a set in ascending date order.
AscendingByDate(rows) ==
    CHOOSE seq \in [1..Cardinality(rows) -> rows] :
        \A i, j \in 1..Cardinality(rows) :
            i < j => seq[i].date < seq[j].date

\* load_stock_data_from_db: the symbol's rows by descending date, the first
\* `days` of them, reversed.
LoadStockDataRows(table, symbol, days) ==
    LET all == AscendingByDate({r \in table : r.symbol = symbol})
        n == Len(all)
    IN  SubSeq(all, n - Min2(n, days) + 1, n)

ReplaceSymbolHistoryCall(symbol, frame) ==
    /\ dbRows' = ReplaceSymbolHistoryRows(dbRows, symbol, frame)
    /\ dbWritten' = IF frame = <<>> THEN dbWritten
                    ELSE [dbWritten EXCEPT ![symbol] = frame]
    /\ dbLoad' = Pending

LoadStockDataFromDbCall(symbol, days) ==
    /\ dbLoad' = [symbol |-> symbol, days |-> days,
                  rows |-> LoadStockDataRows(dbRows, symbol, days)]
    /\ UNCHANGED <<dbRows, dbWritten>>

NextStore ==
    \/ \E symbol \in Symbols : \E frame \in MetricsFrames(symbol, 1) :
          ReplaceSymbolHistoryCall(symbol, frame)
            /\ UNCHANGED <<mlVars, cleanVars, metricVars, routeVars,
                           featVars, apiVars>>
    \/ \E symbol \in Symbols, days \in 1..(MaxStoreDate + 1) :
          LoadStockDataFromDbCall(symbol, days)
            /\ UNCHANGED <<mlVars, cleanVars, metricVars, routeVars,
                           featVars, apiVars>>

SpecStore == Init /\ [][NextStore]_vars

-----------------------------------------------------------------------------
(* ml/feature_engineer.py: the cells of the frames *)

MaxFeatRows == 5      \* rows of the frames given to prepare_features
MaxTargetDays == 2    \* target offsets given to prepare_training_data

\* A row of the cleaned frame with its daily_return (in hundredths of a
\* percent): prices in rupees.
FeatRow(open, high, low, close, volume) ==
    [open |-> open, high |-> high, low |-> low, close |-> close,
     volume |-> volume, daily_return |-> RoundDiv((close - open) * 10000, open)]

\* The rows of the frames: two ordinary days, a day without a range that
\* closed on it, and one that the feed reports closed above it (the cleaner
\* asks for high >= low only).
FeatRowChoices ==
    { FeatRow(100, 102, 98, 101, 1000),
      FeatRow(101, 104, 100, 100, 2000),
      FeatRow(100, 100, 100, 100, 500),
      FeatRow(100, 100, 100, 101, 500) }

\* A float cell: <<>> is NaN, <<n>> a number, <<[num, den]>> a quotient that
\* was not carried out; a quotient with den = 0 is inf or -inf.
Quotient(n, d) == IF n = 0 /\ d = 0 THEN <<>> ELSE <<[num |-> n, den |-> d]>>

Half == [num |-> 1, den |-> 2]

\* df[name] of a frame's own column
OwnColumn(frame, name) == [i \in 1..Len(frame) |-> <<frame[i][name]>>]

\* Series.shift(periods): the cell `periods` rows above (below, when
\* periods < 0), NaN where there is none
Shift(col, periods) ==
    [i \in 1..Len(col) |->
        IF i - periods >= 1 /\ i - periods <= Len(col)
        THEN col[i - periods] ELSE <<>>]

RECURSIVE RollSum(_, _, _)
RollSum(col, lo, hi) ==
    IF lo > hi THEN 0 ELSE col[lo][1] + RollSum(col, lo + 1, hi)

RECURSIVE RollSumSquares(_, _, _)
RollSumSquares(col, lo, hi) ==
    IF lo > hi THEN 0
    ELSE col[lo][1] * col[lo][1] + RollSumSquares(col, lo + 1, hi)

\* One cell of Series.rolling(window).agg() over the rows lo..hi; std is
\* kept as the quotient under its root.
RollAgg(col, agg, lo, hi) ==
    LET n == hi - lo + 1
        vals == {col[j][1] : j \in lo..hi}
    IN  CASE agg = "mean" -> Quotient(RollSum(col, lo, hi), n)
          [] agg = "std" ->
                <<[num |-> n * RollSumSquares(col, lo, hi)
                            - RollSum(col, lo, hi) * RollSum(col, lo, hi),
                   den |-> n * (n - 1)]>>
          [] agg = "min" -> <<CHOOSE v \in vals : \A w \in vals : v <= w>>
          [] agg = "max" -> <<CHOOSE v \in vals : \A w \in vals : v >= w>>

\* Series.rolling(window=window).agg(): min_periods is the window, so the
\* first window - 1 cells are NaN.
Rolling(col, window, agg) ==
    [i \in 1..Len(col) |->
        IF i < window THEN <<>> ELSE RollAgg(col, agg, i - window + 1, i)]

\* create_lag_features(df, 'close', [1, 2, 3, 5, 7, 14]) and
\* create_lag_features(df, 'daily_return', [1, 2, 3, 5])
LagTable ==
    [close_lag_1 |-> <<"close", 1>>, close_lag_2 |-> <<"close", 2>>,
     close_lag_3 |-> <<"close", 3>>, close_lag_5 |-> <<"close", 5>>,
     close_lag_7 |-> <<"close", 7>>, close_lag_14 |-> <<"close", 14>>,
     daily_return_lag_1 |-> <<"daily_return", 1>>,
     daily_return_lag_2 |-> <<"daily_return", 2>>,
     daily_return_lag_3 |-> <<"daily_return", 3>>,
     daily_return_lag_5 |-> <<"daily_return", 5>>]

\* create_rolling_features(df, 'close', [5, 10, 20]) and
\* create_rolling_features(df, 'volume', [5, 10])
RollingTable ==
    [close_roll_mean_5 |-> <<"close", 5, "mean">>,
     close_roll_std_5 |-> <<"close", 5, "std">>,
     close_roll_min_5 |-> <<"close", 5, "min">>,
     close_roll_max_5 |-> <<"close", 5, "max">>,
     close_roll_mean_10 |-> <<"close", 10, "mean">>,
     close_roll_std_10 |-> <<"close", 10, "std">>,
     close_roll_min_10 |-> <<"close", 10, "min">>,
     close_roll_max_10 |-> <<"close", 10, "max">>,
     close_roll_mean_20 |-> <<"close", 20, "mean">>,
     close_roll_std_20 |-> <<"close", 20, "std">>,
     close_roll_min_20 |-> <<"close", 20, "min">>,
     close_roll_max_20 |-> <<"close", 20, "max">>,
     volume_roll_mean_5 |-> <<"volume", 5, "mean">>,
     volume_roll_std_5 |-> <<"volume", 5, "std">>,
     volume_roll_min_5 |-> <<"volume", 5, "min">>,
     volume_roll_max_5 |-> <<"volume", 5, "max">>,
     volume_roll_mean_10 |-> <<"volume", 10, "mean">>,
     volume_roll_std_10 |-> <<"volume", 10, "std">>,
     volume_roll_min_10 |-> <<"volume", 10, "min">>,
     volume_roll_max_10 |-> <<"volume", 10, "max">>]

\* close_position = (close - low) / (high - low), then fillna(0.5): the
\* quotient is NaN only when both of its terms are 0.
ClosePosition(row) ==
    LET q == Quotient(row.close - row.low, row.high - row.low)
    IN  IF q = <<>> THEN <<Half>> ELSE q

\* create_price_features and create_volume_features, cell by cell.
\* volume is above 0 and close is above 0 in a cleaned frame.
PriceVolumeCell(frame, name, i) ==
    LET row == frame[i]
    IN  CASE name = "price_range" -> <<row.high - row.low>>
          [] name = "price_range_pct" ->
                Quotient((row.high - row.low) * 100, row.close)
          [] name = "gap" ->
                IF i = 1 THEN <<>> ELSE <<row.open - frame[i - 1].close>>
          [] name = "gap_pct" ->
                IF i = 1 THEN <<>>
                ELSE Quotient((row.open - frame[i - 1].close) * 100,
                              frame[i - 1].close)
          [] name = "close_position" -> ClosePosition(row)
          [] name = "volume_change" ->
                IF i = 1 THEN <<>>
                ELSE Quotient(row.volume - frame[i - 1].volume,
                              frame[i - 1].volume)
          [] name = "volume_ma_5" ->
                Rolling(OwnColumn(frame, "volume"), 5, "mean")[i]
          [] name = "volume_ratio" ->
                IF i < 5 THEN <<1>>          \* fillna(1)
                ELSE Quotient(row.volume * 5,
                              RollSum(OwnColumn(frame, "volume"), i - 4, i))

OwnColumns == {"open", "high", "low", "close", "volume", "daily_return"}

PriceVolumeColumns ==
    {"price_range", "price_range_pct", "gap", "gap_pct", "close_position",
     "volume_change", "volume_ma_5", "volume_ratio"}

\* The columns of the engineered frame that hold floats (the time features,
\* read from the date, are left out).
FloatColumns ==
    OwnColumns \cup PriceVolumeColumns \cup DOMAIN LagTable
        \cup DOMAIN RollingTable

\* A column of the frame before prepare_features fills it.
EngineeredColumn(frame, name) ==
    IF name \in OwnColumns THEN OwnColumn(frame, name)
    ELSE IF name \in DOMAIN LagTable
    THEN Shift(OwnColumn(frame, LagTable[name][1]), LagTable[name][2])
    ELSE IF name \in DOMAIN RollingTable
    THEN Rolling(OwnColumn(frame, RollingTable[name][1]),
                 RollingTable[name][2], RollingTable[name][3])
    ELSE [i \in 1..Len(frame) |-> PriceVolumeCell(frame, name, i)]

\* The positions at or below i whose cell is a value.
ValidFrom(col, i) == {j \in i..Len(col) : col[j] # <<>>}

\* fillna(method='ffill'): a NaN takes the last valid value above it.
FFillColumn(col) ==
    [i \in 1..Len(col) |->
        LET above == {j \in 1..i : col[j] # <<>>}
        IN  IF above = {} THEN <<>>
            ELSE col[CHOOSE j \in above : \A k \in above : j >= k]]

\* fillna(method='bfill'): a NaN takes the next valid value below it.
BFillColumn(col) ==
    [i \in 1..Len(col) |->
        IF ValidFrom(col, i) = {} THEN <<>>
        ELSE col[CHOOSE j \in ValidFrom(col, i) :
                    \A k \in ValidFrom(col, i) : j <= k]]

\* fillna(0)
FillZero(col) == [i \in 1..Len(col) |-> IF col[i] = <<>> THEN <<0>> ELSE col[i]]

\* prepare_features: an empty frame is returned as it is; the engineered
\* columns are filled by df.fillna(method='bfill').fillna(0).
PrepareFeatures(frame) ==
    IF frame = <<>> THEN <<>>
    ELSE [name \in FloatColumns |->
            FillZero(BFillColumn(EngineeredColumn(frame, name)))]

\* The target read from the rows above: close.shift(target_days).
TargetColumnPast(features, target_days) ==
    Shift(features["close"], target_days)

\* df['target'] = df['close'].shift(-target_days)
TargetColumn(features, target_days) ==
    Shift(features["close"], -target_days)

\* The positions of col that hold a value, in their order.
RECURSIVE NotNaPositions(_, _)
NotNaPositions(col, i) ==
    IF i > Len(col) THEN <<>>
    ELSE (IF col[i] # <<>> THEN <<i>> ELSE <<>>) \o NotNaPositions(col, i + 1)

\* prepare_training_data: dropna(subset=['target']), then X and y; X is
\* given by the positions of its rows in the feature frame.
PrepareTrainingData(features, target_days) ==
    IF features = <<>> THEN [k |-> target_days, rows |-> <<>>, y |-> <<>>]
    ELSE LET target == TargetColumn(features, target_days)
             kept == NotNaPositions(target, 1)
         IN  [k |-> target_days, rows |-> kept,
              y |-> [r \in 1..Len(kept) |-> target[kept[r]][1]]]

\* prepare_features on the frame with one more day.
AppendFeatureRow(row) ==
    /\ Len(featIn) < MaxFeatRows
    /\ featIn' = Append(featIn, row)
    /\ featOut' = PrepareFeatures(featIn')
    /\ trainXy' = Pending

\* prepare_training_data on the engineered frame.
PrepareTrainingDataCall(target_days) ==
    /\ trainXy' = PrepareTrainingData(featOut, target_days)
    /\ UNCHANGED <<featIn, featOut>>

NextPrepare ==
    \/ \E row \in FeatRowChoices :
          AppendFeatureRow(row)
            /\ UNCHANGED <<mlVars, cleanVars, metricVars, routeVars, dbVars,
                          apiVars>>
    \/ \E target_days \in 1..MaxTargetDays :
          PrepareTrainingDataCall(target_days)
            /\ UNCHANGED <<mlVars, cleanVars, metricVars, routeVars, dbVars,
                          apiVars>>

SpecPrepare == Init /\ [][NextPrepare]_vars

-----------------------------------------------------------------------------
(* routers/predictions.py: GET /predict/{symbol} *)

\* A symbol that is not in STOCK_SYMBOLS.
UnknownSymbol == <<"X", ".", "N">>

\* The requests: the symbol, the horizon, the rows of the cleaned frame of
\* the fetched year, and whether model.predict raises (at step fail_at).
PredictionRequests ==
    [symbol : Symbols \cup {UnknownSymbol}, days : PredictionDays,
     rows : {MIN_TRAIN_ROWS - 1, MIN_TRAIN_ROWS}, fail_at : {0, 1}]

\* The predict_next_prices call of a request.
RoutePredictCall(c) ==
    PredictCall(c.symbol, c.rows, c.days, c.fail_at, FirstScenario)

NotFound == [status |-> 404, via |-> "not_found"]

TrainingFailed == [status |-> 500, via |-> "training_failed"]

PredictionError == [status |-> 500, via |-> "prediction_error"]

\* A handler that does not look at what train_model returned.
TrainingSucceededAlways(training_result) == TRUE

\* training_result.get('status') == 'success'; a train_model that raised
\* returned nothing, and its exception leaves the handler.
TrainingSucceeded(training_result) ==
    /\ "status" \in DOMAIN training_result
    /\ training_result.status = "success"

\* get_prediction, lines 46-81: the symbol check, the cache lookup,
\* load_model and, when there is no model, the call of train_model on the
\* fetched, cleaned frame.
GetPredictionStart(c) ==
    /\ predRoute.pc = "idle"
    /\ trainPc = "idle"
    /\ UNCHANGED predictionsCache
    /\ IF c.symbol \notin Symbols
       THEN /\ predRoute' = [pc |-> "idle", call |-> c, found |-> 0,
                             steps |-> <<>>, resp |-> NotFound]
            /\ UNCHANGED mlVars
       ELSE IF predictionsCache[PredictionKey(c.symbol, c.days)] # <<>>
       THEN /\ predRoute' =
                  [pc |-> "idle", call |-> c, found |-> 0,
                   steps |-> <<"get_cached">>,
                   resp |-> [status |-> 200, via |-> "cache",
                             body |-> predictionsCache[
                                 PredictionKey(c.symbol, c.days)][1]]]
            /\ UNCHANGED mlVars
       ELSE IF LoadModel(c.symbol) # 0
       THEN /\ predRoute' = [pc |-> "predict", call |-> c,
                             found |-> LoadModel(c.symbol),
                             steps |-> <<"get_cached", "load_model">>,
                             resp |-> Pending]
            /\ LoadModelCall(c.symbol)
       ELSE /\ predRoute' = [pc |-> "train", call |-> c, found |-> 0,
                             steps |-> <<"get_cached", "load_model",
                                         "train_model">>,
                             resp |-> Pending]
            /\ TrainModel(c.symbol, c.rows, "yfinance")

\* Lines 81-87: train_model has returned or raised.
GetPredictionTrained ==
    /\ predRoute.pc = "train"
    /\ trainPc = "idle"
    /\ predRoute' =
          IF TrainingSucceeded(trainResult)
          THEN [predRoute EXCEPT !.pc = "predict"]
          ELSE [predRoute EXCEPT !.pc = "idle", !.resp = TrainingFailed]
    /\ UNCHANGED <<mlVars, predictionsCache>>

\* Lines 89-114: predict_next_prices on the frame fetched again; an error
\* result is raised, a forecast is cached and returned.
GetPredictionPredict ==
    LET c == predRoute.call
        prediction == PredictResult(RoutePredictCall(c), LoadModel(c.symbol))
    IN  /\ predRoute.pc = "predict"
        /\ PredictNextPrices(RoutePredictCall(c), "yfinance")
        /\ IF "error" \in DOMAIN prediction
           THEN /\ predRoute' =
                      [predRoute EXCEPT
                          !.pc = "idle",
                          !.steps = Append(@, "predict_next_prices"),
                          !.resp = PredictionError]
                /\ UNCHANGED predictionsCache
           ELSE /\ predRoute' =
                      [predRoute EXCEPT
                          !.pc = "idle",
                          !.steps = @ \o <<"predict_next_prices",
                                           "set_cached">>,
                          !.resp = [status |-> 200, via |-> "forecast",
                                    body |-> prediction]]
                /\ predictionsCache' =
                      [predictionsCache EXCEPT
                          ![PredictionKey(c.symbol, c.days)] = <<prediction>>]

\* An entry of predictions_cache reaches its time to live.
PredictionExpire(key) ==
    /\ predictionsCache[key] # <<>>
    /\ predictionsCache' = [predictionsCache EXCEPT ![key] = <<>>]
    /\ UNCHANGED <<mlVars, predRoute>>

Rest == UNCHANGED <<cleanVars, metricVars, routeVars, featVars, dbVars>>

\* The requests of GET /predict/{symbol}, one at a time, with the writes of
\* the joblib.dump of the train_model they call.
NextPredictions ==
    \/ \E c \in PredictionRequests : GetPredictionStart(c) /\ Rest
    \/ DumpStep /\ Others
    \/ DumpRaise /\ Others
    \/ GetPredictionTrained /\ Rest
    \/ GetPredictionPredict /\ Rest
    \/ \E key \in PredictionKeys : PredictionExpire(key) /\ Rest

SpecPredictions == Init /\ [][NextPredictions]_vars

-----------------------------------------------------------------------------
(* Properties of the trainer, the model store and the predictor *)

IsSuccess(r) == "status" \in DOMAIN r /\ r.status = "success"

IsForecast(r) == "predictions" \in DOMAIN r

Complete(v) == [ver |-> v, len |-> ArtifactChunks]

\* A step that is a call of train_model: the trainer was idle and its call,
\* its result or its position changed.
TrainCallStep ==
    /\ trainPc = "idle"
    /\ <<trainCall, trainResult, trainPc>>' # <<trainCall, trainResult, trainPc>>

\* C3: a train_model call with fewer than 50 rows (an empty frame included)
\* returns the InsufficientData failure with the symbol, fits nothing and
\* leaves every stored model as it was; a call with 50 rows or more goes on
\* to fit a model.
C3_InsufficientData ==
    [][TrainCallStep =>
        IF trainCall'.rows <= 49
        THEN /\ trainResult' = [error |-> "Insufficient data for training",
                                symbol |-> trainCall'.symbol]
             /\ fitCount' = fitCount
             /\ store' = store
             /\ trainPc' = "idle"
        ELSE /\ fitCount' = fitCount + 1
             /\ trainPc' = "dump"]_vars

\* A call with 49 rows was refused while a complete model for its symbol was
\* in the store, and the model is still there.
C3_Witness ==
    /\ trainCall.rows = 49
    /\ trainPc = "idle"
    /\ "error" \in DOMAIN trainResult
    /\ saved[GetModelPath(trainCall.symbol)] > 0
    /\ store[GetModelPath(trainCall.symbol)]
          = Complete(saved[GetModelPath(trainCall.symbol)])

\* C4: predict_next_prices returns a failure and nothing else when no model
\* is stored for the symbol (whatever the frame), when the frame is empty,
\* and when feature preparation gives an empty frame.
C4_PredictFailures ==
    "args" \in DOMAIN predCall =>
        /\ predCall.model = 0 =>
              predResult = [error |-> <<"No trained model found for ">>
                                          \o predCall.args.symbol]
        /\ (predCall.model # 0 /\ predCall.args.rows = 0) =>
              predResult = [error |-> <<"No data available for prediction">>]
        /\ (predCall.model # 0 /\ predCall.args.rows # 0
                /\ PrepareFeaturesLen(predCall.args.rows) = 0) =>
              predResult = [error |-> <<"Feature preparation failed">>]
        /\ (predCall.model = 0 \/ predCall.args.rows = 0) =>
              /\ DOMAIN predResult = {"error"}
              /\ predTrace = <<>>

\* A call with an empty frame and no stored model got ModelNotFound.
C4_Witness ==
    /\ "args" \in DOMAIN predCall
    /\ predCall.model = 0
    /\ predCall.args.rows = 0
    /\ store[GetModelPath(predCall.args.symbol)] = NoFile
    /\ "error" \in DOMAIN predResult

\* C5: a load_model that runs while a save of the same symbol's model is
\* under way returns the complete previous artifact, the complete new one,
\* or None only when there was no previous one.
C5_AtomicReplace ==
    loadObs.writing # 0 =>
        loadObs.result \in {loadObs.previous, loadObs.writing}

\* C6: train_model returns 'success' only once the model it fitted is the
\* complete file under the symbol's path, whatever was there before; when
\* the write fails the caller gets the exception and no success.
C6_SuccessAfterSave ==
    /\ IsSuccess(trainResult) =>
          /\ store[GetModelPath(trainResult.symbol)] = Complete(fitCount)
          /\ saved[GetModelPath(trainResult.symbol)] = fitCount
    /\ (trainPc = "idle" /\ trainCall.rows >= MIN_TRAIN_ROWS
            /\ store[GetModelPath(trainCall.symbol)] # Complete(fitCount)) =>
          trainResult = Raised

\* The second fitted model replaced the first one, which a load_model had
\* returned for the same symbol.
C6_Witness ==
    /\ IsSuccess(trainResult)
    /\ fitCount = 2
    /\ loadObs.symbol = trainResult.symbol
    /\ loadObs.result = 1
    /\ store[GetModelPath(trainResult.symbol)] = Complete(2)

\* C7: in a successful result the lists predictions, lower, upper and dates
\* have one length: days when the loop completed, the number of completed
\* steps when model.predict raised.
C7_EqualLengths ==
    IsForecast(predResult) =>
        LET n == IF predCall.args.fail_at = 0 THEN predCall.args.days
                 ELSE predCall.args.fail_at - 1
        IN  /\ Len(predResult.predictions) = n
            /\ Len(predResult.confidence.lower) = n
            /\ Len(predResult.confidence.upper) = n
            /\ Len(predResult.dates) = n

\* C8: with a deviation above 0, the half-width of the confidence band
\* never shrinks from one step of a rollout to the next.
C8_MonotonicWidening ==
    (IsForecast(predResult) /\ predCall.args.daily_std > 0) =>
        \A i \in 1..(Len(predTrace) - 1) :
            HalfWidth(i + 1, predCall.args.daily_std,
                      predTrace[i + 1].current_price)
              >= HalfWidth(i, predCall.args.daily_std,
                           predTrace[i].current_price)

-----------------------------------------------------------------------------
(* Properties of the cleaner *)

KeyRows(key) == {i \in 1..Len(raw) : DuplicateKey(raw[i]) = key}

DuplicatedKeys ==
    {key \in {DuplicateKey(raw[i]) : i \in 1..Len(raw)} :
        Cardinality(KeyRows(key)) > 1}

CleanedOf(key) == {i \in 1..Len(cleaned) : DuplicateKey(cleaned[i]) = key}

LastOf(S) == CHOOSE i \in S : \A j \in S : j <= i

NoNullRow(row) == \A k \in 1..Len(EssentialCols) : ~IsNull(row[EssentialCols[k]])

\* C10 as stated: every key carried by more than one raw row has exactly one
\* cleaned row, the raw row in the last position among them.
C10_LastDuplicateKept ==
    cleanPc # "input" =>
        \A key \in DuplicatedKeys :
            /\ Cardinality(CleanedOf(key)) = 1
            /\ \A i \in CleanedOf(key) : cleaned[i] = raw[LastOf(KeyRows(key))]

\* C10, amended: every key carried by more than one raw row has at most one
\* cleaned row: the last of its raw rows without a null in open, high, low,
\* close or volume, present exactly when that row has volume > 0 and
\* high >= low.
C10_LastCompleteDuplicateKept ==
    cleanPc # "input" =>
        \A key \in DuplicatedKeys :
            LET complete == {i \in KeyRows(key) : NoNullRow(raw[i])}
            IN  IF complete = {} THEN CleanedOf(key) = {}
                ELSE LET last == raw[LastOf(complete)]
                     IN  IF Val(last.volume) > 0
                            /\ Val(last.high) >= Val(last.low)
                         THEN /\ Cardinality(CleanedOf(key)) = 1
                              /\ \A i \in CleanedOf(key) : cleaned[i] = last
                         ELSE CleanedOf(key) = {}

\* A date came twice, the later row without a close: the earlier row is the
\* one cleaned row of that date.
C10_Witness ==
    /\ cleanPc = "cleaned"
    /\ Len(raw) = 2
    /\ raw[1].date = raw[2].date
    /\ IsNull(raw[2].close)
    /\ cleaned = <<raw[1]>>

-----------------------------------------------------------------------------
(* Properties of the metrics calculator *)

\* The number of leading rows two frames share, the first k being known to
\* be shared.
CommonPrefix(a, b, k) ==
    LET m == Min2(Len(a), Len(b))
        differing == {i \in (k + 1)..m : a[i] # b[i]}
    IN  IF differing = {} THEN m
        ELSE (CHOOSE i \in differing : \A j \in differing : i <= j) - 1

\* C1: no look-ahead.  When rows after row i are appended, altered or
\* removed, every derived field of row i (daily_return, ma_7, ma_20,
\* high_52w, low_52w, volatility, momentum, trend_strength) stays as it was.
C1_NoLookAhead ==
    [][\A i \in 1..CommonPrefix(df, df', 0) : metrics'[i] = metrics[i]]_vars

\* A day before the last one was altered, in a frame longer than every
\* window but the 52-week one, and the last day's metrics moved with it.
C1_Witness ==
    /\ lastEdit.op = "alter"
    /\ lastEdit.pos > VOLATILITY_WINDOW
    /\ lastEdit.pos < Len(df)
    /\ Len(metrics) = Len(df)
    /\ metrics[Len(df)].ma_7 # metrics[lastEdit.pos - 1].ma_7

\* C9: every row's volatility lies between 0 and 100 (in hundredths: 0 and
\* 10000), and is 0 on the rows whose window holds fewer than 5 returns.
C9_BoundedVolatility ==
    \A i \in 1..Len(metrics) :
        /\ metrics[i].volatility >= 0
        /\ metrics[i].volatility <= 10000
        /\ i < 5 => metrics[i].volatility = 0

\* A frame whose fifth row is capped at 100, whose first rows are at 0 and
\* whose last row lies in between.
C9_Witness ==
    /\ Len(metrics) > VOLATILITY_WINDOW + 10
    /\ metrics[1].volatility = 0
    /\ metrics[4].volatility = 0
    /\ metrics[5].volatility = 10000
    /\ metrics[Len(metrics)].volatility > 0
    /\ metrics[Len(metrics)].volatility < 10000

\* A reason clean_stock_data has to remove the raw row at position i: a null
\* in an essential column, a later row with the same (date, symbol),
\* volume <= 0, high < low.
RemovalReason(i) ==
    \/ ~NoNullRow(raw[i])
    \/ \E j \in (i + 1)..Len(raw) : DuplicateKey(raw[j]) = DuplicateKey(raw[i])
    \/ Val(raw[i].volume) <= 0
    \/ Val(raw[i].high) < Val(raw[i].low)

\* C11: clean_stock_data removes a row only for a null, a later duplicate,
\* volume <= 0 or high < low: every raw row with none of these is a cleaned
\* row (whatever its high and low are against its open and close), every
\* cleaned row is a raw row, and no cleaned row has high < low.
C11_RemovalReasons ==
    cleanPc # "input" =>
        /\ \A i \in 1..Len(raw) :
              ~RemovalReason(i) => \E k \in 1..Len(cleaned) : cleaned[k] = raw[i]
        /\ \A k \in 1..Len(cleaned) :
              /\ \E i \in 1..Len(raw) : cleaned[k] = raw[i]
              /\ Val(cleaned[k].high) >= Val(cleaned[k].low)

\* A row with high under its open and low over its close was kept, beside a
\* row with high < low that was removed.
C11_Witness ==
    /\ cleanPc = "cleaned"
    /\ \E k \in 1..Len(cleaned) :
          /\ Val(cleaned[k].high) < Val(cleaned[k].open)
          /\ Val(cleaned[k].low) > Val(cleaned[k].close)
    /\ \E i \in 1..Len(raw) :
          NoNullRow(raw[i]) /\ Val(raw[i].high) < Val(raw[i].low)
    /\ Len(cleaned) < Len(raw)

\* The invariants of a cleaned frame.
CleanInvariants(frame) ==
    /\ \A i, j \in 1..Len(frame) :
          i < j => /\ frame[i].date <= frame[j].date
                   /\ DuplicateKey(frame[i]) # DuplicateKey(frame[j])
                   /\ frame[i].symbol = frame[j].symbol
                         => frame[i].date < frame[j].date
    /\ \A i \in 1..Len(frame) :
          /\ NoNullRow(frame[i])
          /\ Val(frame[i].volume) > 0
          /\ Val(frame[i].high) >= Val(frame[i].low)

\* C12: every output of clean_stock_data is in ascending date order, has no
\* two rows with one (date, symbol), so one symbol's dates rise strictly,
\* and every row of it has volume > 0, high >= low and no null in open,
\* high, low, close or volume.
C12_CleanInvariants ==
    /\ cleanPc # "input" => CleanInvariants(cleaned)
    /\ cleanPc = "recleaned" => CleanInvariants(recleaned)

\* A raw row without volume and two rows in falling date order after it
\* were cleaned to these two rows in rising date order.
C12_Witness ==
    /\ cleanPc = "cleaned"
    /\ Len(raw) = 3
    /\ Val(raw[1].volume) = 0
    /\ raw[2].date > raw[3].date
    /\ cleaned = <<raw[3], raw[2]>>

\* C13: clean_stock_data never raises: None, an empty table, a table with
\* no valid row and a table that lacks an expected column all give an
\* output.
C13_NeverRaises == cleanPc # "raised"

\* C14: the split is chronological.  Of the N samples of a successful
\* training, in date order, the model was fitted on the first
\* floor(N * 0.8) and evaluated on the others: every training sample comes
\* before every test sample, none is in both sets, and the result's
\* train_samples and test_samples are the sizes of the two sets and add up
\* to samples.
C14_ChronologicalSplit ==
    IsSuccess(trainResult) =>
        LET N == trainResult.samples
        IN  /\ fitData.train = 1..((N * 8) \div 10)
            /\ fitData.test = (1..N) \ fitData.train
            /\ \A a \in fitData.train, b \in fitData.test : a < b
            /\ trainResult.train_samples = Cardinality(fitData.train)
            /\ trainResult.test_samples = Cardinality(fitData.test)
            /\ trainResult.train_samples + trainResult.test_samples = N

\* A frame of 50 rows gave 49 samples: 39 to fit on, the last 10 to test on.
C14_Witness ==
    /\ IsSuccess(trainResult)
    /\ trainCall.rows = 50
    /\ trainResult.samples = 49
    /\ trainResult.train_samples = 39
    /\ trainResult.test_samples = 10
    /\ fitData.test = 40..49

\* The get_feature_columns list restricted, in its order, to the columns the
\* engineered frame of each source has.
CanonicalPresent ==
    [source \in FrameSources |->
        Present(GetFeatureColumns,
                PrepareFeaturesColumns(RouteColumns(source)))]

-----------------------------------------------------------------------------
(* Properties of a forecast *)

\* The date before the i-th forecast date: the frame's last date for the
\* first, the forecast date before it for the others.
DateBefore(i) ==
    IF i = 1 THEN predCall.args.last_date ELSE predResult.dates[i - 1]

IsWeekend(d) == Weekday(d) \in {5, 6}

\* C16: a forecast carries exactly `days` dates, strictly increasing, none a
\* Saturday or a Sunday, each the first weekday after the date before it
\* (the frame's last date for the first); after a Friday the first is the
\* Monday that follows.
C16_ForecastDates ==
    IsForecast(predResult) =>
        /\ Len(predResult.dates) = predCall.args.days
        /\ \A i \in 1..Len(predResult.dates) :
              /\ ~IsWeekend(predResult.dates[i])
              /\ predResult.dates[i] > DateBefore(i)
              /\ \A d \in (DateBefore(i) + 1)..(predResult.dates[i] - 1) :
                    IsWeekend(d)
        /\ Weekday(predCall.args.last_date) = 4 =>
              predResult.dates[1] = predCall.args.last_date + 3

\* A three-day forecast from a Friday: Monday, Tuesday, Wednesday.
C16_Witness ==
    /\ IsForecast(predResult)
    /\ Weekday(predCall.args.last_date) = 4
    /\ predCall.args.days = 3
    /\ predResult.dates = <<predCall.args.last_date + 3,
                            predCall.args.last_date + 4,
                            predCall.args.last_date + 5>>

\* The final prediction of a forecast, in cents.
FinalPrediction == predResult.predictions[Len(predResult.predictions)]

\* (final prediction - last_close) / last_close * 100 against a percentage:
\* the sign of er - pct, last_close being above 0.
ReturnAgainst(pct) ==
    (FinalPrediction * 10 - predCall.args.last_close) * 100
        - pct * predCall.args.last_close

\* C17: the trend is 'bullish' exactly when the expected return of the final
\* prediction over the last close is above 2 per cent, 'bearish' exactly
\* when it is below -2 per cent, and 'neutral' otherwise, the two thresholds
\* included.
C17_TrendLabel ==
    IsForecast(predResult) =>
        /\ predResult.summary.trend = "bullish" <=> ReturnAgainst(2) > 0
        /\ predResult.summary.trend = "bearish" <=> ReturnAgainst(-2) < 0
        /\ predResult.summary.trend = "neutral"
              <=> (ReturnAgainst(2) <= 0 /\ ReturnAgainst(-2) >= 0)

\* A forecast whose expected return is 2 per cent exactly is neutral.
C17_Witness ==
    /\ IsForecast(predResult)
    /\ ReturnAgainst(2) = 0
    /\ predResult.summary.expected_return = 200
    /\ predResult.summary.trend = "neutral"

\* A call that went past the three early returns and into the loop.
ReachedRollout ==
    /\ "args" \in DOMAIN predCall
    /\ predCall.model # 0
    /\ predCall.args.rows # 0
    /\ PrepareFeaturesLen(predCall.args.rows) # 0

\* C18: when step i of the rollout raises, the loop has run steps 1..i-1
\* and the result holds the prediction and the two bounds of each of them.
C18_PartialRollout ==
    (ReachedRollout /\ predCall.args.fail_at >= 1) =>
        /\ Len(predTrace) = predCall.args.fail_at - 1
        /\ Len(predTrace) >= 1 =>
              /\ IsForecast(predResult)
              /\ Len(predResult.predictions) = Len(predTrace)
              /\ Len(predResult.confidence.lower) = Len(predTrace)
              /\ Len(predResult.confidence.upper) = Len(predTrace)
              /\ \A k \in 1..Len(predTrace) :
                    /\ predResult.predictions[k]
                          = Round2(predTrace[k].predicted_price)
                    /\ predResult.confidence.lower[k]
                          = Round2(Max2(0, predTrace[k].predicted_price
                                - HalfWidth(k, predCall.args.daily_std,
                                            predTrace[k].current_price)))
                    /\ predResult.confidence.upper[k]
                          = Round2(predTrace[k].predicted_price
                                + HalfWidth(k, predCall.args.daily_std,
                                            predTrace[k].current_price))

\* The third step of a three-day rollout raised: two steps are returned.
C18_Witness ==
    /\ ReachedRollout
    /\ predCall.args.days = 3
    /\ predCall.args.fail_at = 3
    /\ IsForecast(predResult)
    /\ Len(predResult.predictions) = 2

\* C19: no lower confidence bound of a forecast is below 0.
C19_LowerBoundNotNegative ==
    IsForecast(predResult) =>
        \A k \in 1..Len(predResult.confidence.lower) :
            predResult.confidence.lower[k] >= 0

\* A model output below 0, and an output smaller than the half-width, both
\* give a lower bound of 0.
C19_Witness ==
    /\ IsForecast(predResult)
    /\ predCall.args.days >= 2
    /\ \/ predCall.args.model_output < 0
       \/ predCall.args.model_output
            < HalfWidth(1, predCall.args.daily_std, predCall.args.last_close)
    /\ \A k \in 1..Len(predResult.confidence.lower) :
          predResult.confidence.lower[k] = 0

-----------------------------------------------------------------------------
(* Properties of the routes *)

\* The request looked into the store: a known symbol and no cached response.
ReadStore ==
    /\ "args" \in DOMAIN routeCall
    /\ routeCall.args.known
    /\ ~routeCall.hit

\* The store read of the request missed or returned too few rows: fewer
\* than `days` for the data route; fewer than 200 stored, or fewer than 50
\* loaded, for the summary route.
ReadFellShort ==
    IF routeCall.args.route = "data"
    THEN Min2(routeCall.stored, routeCall.args.days) < routeCall.args.days
    ELSE \/ routeCall.stored < 200
         \/ Min2(routeCall.stored, 252) < 50

\* C20: in the data and summary routes a store read that misses, returns
\* too few rows or raises is followed by the recomputation from a fetched
\* frame, and a store write that raises leaves the recomputed response as it
\* would have been.
C20_StoreBestEffort ==
    ReadStore =>
        /\ (routeCall.args.read = "raises" \/ ReadFellShort) =>
              /\ routeResp.via = "recomputed"
              /\ routeResp.body.status = 200
              /\ routeResp.body.rows =
                    IF routeCall.args.route = "data"
                    THEN Min2(routeCall.args.rows, routeCall.args.days)
                    ELSE routeCall.args.rows
        /\ (routeResp.via = "recomputed" /\ routeCall.args.write = "raises") =>
              /\ routeResp.body.status = 200
              /\ routeResp.body.rows =
                    IF routeCall.args.route = "data"
                    THEN Min2(routeCall.args.rows, routeCall.args.days)
                    ELSE routeCall.args.rows

\* The summary route found rows in the store, but fewer than 200, its write
\* raised, and it answered from the fetched frame.
C20_Witness ==
    /\ ReadStore
    /\ routeCall.args.route = "summary"
    /\ routeCall.args.read = "ok"
    /\ routeCall.stored > 0
    /\ ReadFellShort
    /\ routeCall.args.write = "raises"
    /\ routeCall.args.rows = 200
    /\ routeResp = [via |-> "recomputed",
                    body |-> [status |-> 200, rows |-> 200]]

-----------------------------------------------------------------------------
(* Properties of the constant series *)

\* C21: on a series whose every row has open = close = 100, high = 101 and
\* low = 99, every row of calculate_all_metrics, the warm-up rows included,
\* has daily_return 0, ma_7 and ma_20 of 100, and volatility, momentum and
\* trend_strength of 0.
C21_ConstantSeries ==
    (\A i \in 1..Len(df) : df[i] = FlatDay) =>
        /\ Len(metrics) = Len(df)
        /\ \A i \in 1..Len(metrics) :
              /\ metrics[i].daily_return = 0
              /\ metrics[i].ma_7 = 10000
              /\ metrics[i].ma_20 = 10000
              /\ metrics[i].volatility = 0
              /\ metrics[i].momentum = 0
              /\ metrics[i].trend_strength = 0

\* A constant series longer than every window.
C21_Witness ==
    /\ Len(df) > TRADING_DAYS_PER_YEAR
    /\ \A i \in 1..Len(df) : df[i] = FlatDay
    /\ metrics[1].ma_20 = 10000
    /\ metrics[Len(df)].volatility = 0

-----------------------------------------------------------------------------
(* Properties of the model store, continued *)

\* The file the successful train_model calls have left under a path.
LastSaved(path) == IF saved[path] = 0 THEN NoFile ELSE Complete(saved[path])

\* A train_model call is inside joblib.dump on this path.
Dumping(path) == trainPc = "dump" /\ DumpPath = path

\* A step changes no file but the one of the symbol train_model was called
\* with, and changes that one only inside train_model's joblib.dump.
StoreFrame ==
    \A path \in Paths :
        store'[path] # store[path] => Dumping(path)

\* C22: the model store changes only by a successful train_model(A), and
\* only in the artifact of A: outside a running train_model every file is
\* the one the last successful train_model of its symbol wrote (none when
\* there was none), and no step of load_model, of predict_next_prices or of
\* a train_model of another symbol changes it.
C22_StoreFrameCondition ==
    /\ [](\A path \in Paths : ~Dumping(path) => store[path] = LastSaved(path))
    /\ [][StoreFrame]_vars

\* The part of C22 that is about the other symbols and the readers.
C22_OtherArtifactsUnchanged == [][StoreFrame]_vars

-----------------------------------------------------------------------------
(* Properties of the rollout, continued *)

\* C23: at every step of the rollout model.predict is given the last row of
\* the engineered frame, as it was before the loop; the predicted price
\* enters the tracked current_price of the next step and nothing else.
C23_StaleFeatureSnapshot ==
    ReachedRollout =>
        \A k \in 1..Len(predTrace) :
            /\ predTrace[k].input = [row |-> predCall.args.rows,
                                     close |-> predCall.args.last_close]
            /\ predTrace[k].current_price =
                  IF k = 1 THEN predCall.args.last_close
                  ELSE predTrace[k - 1].predicted_price

\* Three steps whose tracked price left the last close while the model's
\* input stayed the same.
C23_Witness ==
    /\ ReachedRollout
    /\ Len(predTrace) = 3
    /\ predTrace[3].current_price # predCall.args.last_close
    /\ predTrace[3].input = predTrace[1].input
    /\ predTrace[3].input.close = predCall.args.last_close

(* C24: for every row with high = low, close_position is 0.5 whatever the
   close is, and for every row with high > low it is
   (close - low) / (high - low). *)
C24_ClosePositionDefault ==
    \A i \in 1..Len(featIn) :
        featOut["close_position"][i] =
            IF featIn[i].high = featIn[i].low THEN <<Half>>
            ELSE Quotient(featIn[i].close - featIn[i].low,
                          featIn[i].high - featIn[i].low)

\* The cell of the engineered column `name` that fills row i: the next
\* value at or below the row, 0 when there is none.
FilledCell(name, i) ==
    LET col == EngineeredColumn(featIn, name)
        below == ValidFrom(col, i)
    IN  IF below = {} THEN <<0>>
        ELSE col[CHOOSE j \in below : \A k \in below : j <= k]

(* C25: every cell of the frame prepare_features returns is non-null: a
   cell the lags, the gap or the rolling windows left null holds the next
   valid value below it in its column, or 0 when there is none, and every
   other cell is as it was computed. *)
C25_NoNullReachesModel ==
    \A name \in FloatColumns : \A i \in 1..Len(featIn) :
        /\ featOut[name][i] # <<>>
        /\ featOut[name][i] = FilledCell(name, i)

\* A frame of five rows whose lag-1 cell of the first row took the value
\* below it, whose lag-14 column had no value and is 0, and whose first
\* full window holds its mean.
C25_Witness ==
    /\ Len(featIn) >= 5
    /\ featIn[1].close # featIn[2].close
    /\ EngineeredColumn(featIn, "close_lag_1")[1] = <<>>
    /\ featOut["close_lag_1"][1] = <<featIn[1].close>>
    /\ featOut["close_lag_14"][1] = <<0>>
    /\ featOut["close_roll_mean_5"][1]
            = Quotient(RollSum(OwnColumn(featIn, "close"), 1, 5), 5)

(* C26: prepare_training_data on a frame of n rows with target offset k
   (k <= n) keeps the first n - k rows in their order, the target of row i
   being the close of row i + k, and discards exactly the final k rows. *)
C26_TargetAlignment ==
    (trainXy # Pending /\ trainXy.k <= Len(featIn)) =>
        LET n == Len(featIn)
            k == trainXy.k
        IN  /\ trainXy.rows = [i \in 1..(n - k) |-> i]
            /\ trainXy.y = [i \in 1..(n - k) |-> featIn[i + k].close]

\* Five rows with two closes among the first three and offset 2.
C26_Witness ==
    /\ trainXy # Pending
    /\ trainXy.k = 2
    /\ Len(featIn) = 5
    /\ trainXy.rows = <<1, 2, 3>>
    /\ trainXy.y[1] # trainXy.y[2]


(* C28: whenever train_model passes the 50-row check, the usable samples
   are the rows but one, at least 49, so the failure 'Insufficient samples
   after feature preparation' is never returned. *)
C28_SamplesSuffice ==
    /\ \A symbol \in Symbols : trainResult # InsufficientSamplesResult(symbol)
    /\ (trainCall # NoCall /\ trainCall.rows >= MIN_TRAIN_ROWS) =>
          /\ trainPc = "dump" =>
                Cardinality(fitData.train) + Cardinality(fitData.test)
                    = trainCall.rows - 1
          /\ IsSuccess(trainResult) =>
                /\ trainResult.samples = trainCall.rows - 1
                /\ trainResult.samples >= MIN_TRAIN_ROWS - 1
                /\ trainResult.samples >= MIN_SAMPLES

\* A frame of exactly 50 rows was trained on 49 samples.
C28_Witness ==
    /\ IsSuccess(trainResult)
    /\ trainCall.rows = MIN_TRAIN_ROWS
    /\ trainResult.samples = 49
    /\ trainResult.train_samples + trainResult.test_samples = 49


(* C29: at every step of a forecast the lower bound is at most the
   prediction and the prediction at most the upper bound, for any model
   output (zero and negative ones too) and any volatility. *)
C29_BandEnclosesForecast ==
    IsForecast(predResult) =>
        \A k \in 1..Len(predResult.predictions) :
            /\ predResult.confidence.lower[k] <= predResult.predictions[k]
            /\ predResult.predictions[k] <= predResult.confidence.upper[k]


\* A load that asked for at least as many rows as the frame stored last
\* for its symbol.
LoadedAll ==
    /\ dbLoad # Pending
    /\ dbWritten[dbLoad.symbol] # <<>>
    /\ dbLoad.days >= Len(dbWritten[dbLoad.symbol])

(* C27: after replace_symbol_history(symbol, rows), load_stock_data_from_db
   (symbol, n) with n >= len(rows) returns the same rows in ascending date
   order with every field unchanged, the derived fields daily_return,
   ma_7, ma_20, high_52w, low_52w, volatility, momentum and trend_strength
   among them. *)
C27_PersistenceRoundTrip ==
    LoadedAll => dbLoad.rows = dbWritten[dbLoad.symbol]

\* The fields class StockData maps do come back unchanged, in date order.
C27_MappedFieldsRoundTrip ==
    LoadedAll =>
        /\ Len(dbLoad.rows) = Len(dbWritten[dbLoad.symbol])
        /\ \A i \in 1..Len(dbLoad.rows) :
              /\ DOMAIN dbLoad.rows[i] = StockDataMapped
              /\ \A col \in StockDataMapped :
                    dbLoad.rows[i][col] = dbWritten[dbLoad.symbol][i][col]


\* The request found neither a cached response nor a model.
FoundNoModel ==
    /\ predRoute.pc # "idle" \/ "call" \in DOMAIN predRoute
    /\ predRoute.call.symbol \in Symbols
    /\ predRoute.found = 0
    /\ Len(predRoute.steps) >= 3

\* The model of the request's symbol is stored, whole.
ModelStored ==
    /\ store[GetModelPath(predRoute.call.symbol)].ver > 0
    /\ store[GetModelPath(predRoute.call.symbol)].len = ArtifactChunks

\* The request of a known symbol without a cached response and without a
\* model: it predicts only once its train_model has succeeded and the model
\* is stored; its forecast came from that model; when train_model failed it
\* answered 500 without a predict_next_prices call.
TrainedBeforePredict ==
    FoundNoModel =>
        /\ predRoute.pc = "predict" =>
              /\ IsSuccess(trainResult)
              /\ trainResult.symbol = predRoute.call.symbol
              /\ ModelStored
        /\ (predRoute.pc = "idle" /\ predRoute.resp.via = "forecast") =>
              /\ predRoute.steps = <<"get_cached", "load_model", "train_model",
                                     "predict_next_prices", "set_cached">>
              /\ ModelStored
              /\ predCall.model = store[GetModelPath(predRoute.call.symbol)].ver
        /\ (predRoute.pc = "idle" /\ ~IsSuccess(trainResult)) =>
              /\ predRoute.resp = TrainingFailed
              /\ predRoute.steps = <<"get_cached", "load_model", "train_model">>

\* A step that writes to the predictions cache writes the forecast the
\* handler returns, computed from a stored model; a step that ends a request
\* whose training failed calls no predictor and leaves the cache alone.
CacheWrittenWithModel ==
    /\ (\E key \in PredictionKeys :
            /\ predictionsCache'[key] # predictionsCache[key]
            /\ predictionsCache'[key] # <<>>) =>
          /\ predRoute'.resp.via = "forecast"
          /\ predictionsCache'[PredictionKey(predRoute'.call.symbol,
                                             predRoute'.call.days)]
                = <<predRoute'.resp.body>>
          /\ IsForecast(predRoute'.resp.body)
          /\ LoadModel(predRoute'.call.symbol) > 0
          /\ UNCHANGED store
    /\ (predRoute.pc = "train" /\ predRoute'.pc = "idle") =>
          UNCHANGED <<predictionsCache, predCall, predResult, store>>

(* C30: GET /predict/{symbol} for a known symbol with no cached response
   and no stored model trains and stores a model before it predicts; it
   returns and caches a forecast only when a model of the symbol is stored;
   and when training does not succeed it raises an error, makes no
   prediction and writes nothing to the predictions cache. *)
C30_TrainBeforePredict ==
    /\ []TrainedBeforePredict
    /\ [][CacheWrittenWithModel]_vars

\* A request that found no model has trained one on 50 rows, stored it,
\* predicted with it and cached the forecast it returned.
C30_Witness ==
    /\ FoundNoModel
    /\ predRoute.pc = "idle"
    /\ predRoute.resp.via = "forecast"
    /\ trainCall.rows = MIN_TRAIN_ROWS
    /\ ModelStored
    /\ predictionsCache[PredictionKey(predRoute.call.symbol,
                                      predRoute.call.days)]
          = <<predRoute.resp.body>>


=============================================================================
